---- MODULE Spec2Model ----
(***************************************************************************)
(* A model of stacked-pr-sync: the orchestration of git commands done by   *)
(* src/services/sync-manager.js (syncStackedPRs), the conflict detector    *)
(* (checkAllPotentialConflicts, handlePreDetectedConflicts) and the git    *)
(* helpers of src/utils/git.js.                                            *)
(*                                                                         *)
(* git itself is the environment.  A repository is a record g:             *)
(*   head       the checked-out branch ("" when HEAD is detached)          *)
(*   tips       local branch name -> the set of changes its tip contains   *)
(*   merging    MERGE_HEAD exists                                          *)
(*   conflicted the index holds unmerged paths                             *)
(*   mlines     the status lines the merge in progress contributes         *)
(*   wt         the status lines of the uncommitted local changes          *)
(*   stash      the stash list, newest first                               *)
(*   origin     a remote named origin exists                               *)
(*   remotes    branch name -> changes of origin/<name>                    *)
(*   conf, xy   which pairs of changes conflict, and the XY status code    *)
(*              git gives the conflicted path                              *)
(* A git command is an operator from g to [ok, g]; `fail` makes the        *)
(* command exit non-zero without effect (lock file, i/o error, ...).       *)
(***************************************************************************)
EXTENDS Integers, Sequences, FiniteSets, TLC

\* ---------------------------------------------------------------- bounds
MaxStackLen == 3
MaxFailures == 1

AllBranches == <<"main", "f1", "f2", "f3", "f4">>
OtherBranch == "dev"
NullBranch == "null"

\* the change a branch carries on top of the common root
OwnChange(b) ==
  IF b = OtherBranch THEN 0
  ELSE CHOOSE k \in 1..Len(AllBranches) : AllBranches[k] = b

\* the seven XY codes git status --porcelain gives an unmerged path
UnmergedXY == {"UU", "AA", "DD", "UD", "DU", "AU", "UA"}

MergePath == "app.js"

\* ------------------------------------------------------------- JS strings
\* String.prototype.includes
Includes(s, t) ==
  \E k \in 0..(Len(s) - Len(t)) : SubSeq(s, k + 1, k + Len(t)) = t

\* String.prototype.substring(from), from counted from 0
Substring(s, from) == SubSeq(s, from + 1, Len(s))

IsSpace(c) == c \in {" ", "\n"}

\* String.prototype.trim
RECURSIVE TrimLeft(_)
TrimLeft(s) ==
  IF Len(s) > 0 /\ IsSpace(SubSeq(s, 1, 1)) THEN TrimLeft(Substring(s, 1)) ELSE s

RECURSIVE TrimRight(_)
TrimRight(s) ==
  IF Len(s) > 0 /\ IsSpace(SubSeq(s, Len(s), Len(s)))
  THEN TrimRight(SubSeq(s, 1, Len(s) - 1))
  ELSE s

Trim(s) == TrimRight(TrimLeft(s))

\* String.prototype.split('\n')
RECURSIVE SplitLines(_)
SplitLines(s) ==
  IF ~Includes(s, "\n") THEN <<s>>
  ELSE LET k == CHOOSE k \in 1..Len(s) :
                  /\ SubSeq(s, k, k) = "\n"
                  /\ \A j \in 1..(k - 1) : SubSeq(s, j, j) # "\n"
       IN <<SubSeq(s, 1, k - 1)>> \o SplitLines(Substring(s, k))

\* the text git prints for a sequence of status lines
RECURSIVE JoinLines(_)
JoinLines(ls) ==
  IF ls = <<>> THEN "" ELSE Head(ls) \o "\n" \o JoinLines(Tail(ls))

\* --------------------------------------------------------------- git, state
IsUntracked(line) == SubSeq(line, 1, 2) = "??"

RECURSIVE TrackedLines(_)
TrackedLines(ls) ==
  IF ls = <<>> THEN <<>>
  ELSE (IF IsUntracked(Head(ls)) THEN <<>> ELSE <<Head(ls)>>) \o TrackedLines(Tail(ls))

RECURSIVE UntrackedLines(_)
UntrackedLines(ls) ==
  IF ls = <<>> THEN <<>>
  ELSE (IF IsUntracked(Head(ls)) THEN <<Head(ls)>> ELSE <<>>) \o UntrackedLines(Tail(ls))

\* git status --porcelain: the index entries first, untracked paths last
StatusText(g) ==
  JoinLines(g.mlines \o TrackedLines(g.wt) \o UntrackedLines(g.wt))

Res(ok, g) == [ok |-> ok, g |-> g]

Without(f, b) == [x \in (DOMAIN f) \ {b} |-> f[x]]
With(f, b, v) == [x \in (DOMAIN f) \cup {b} |-> IF x = b THEN v ELSE f[x]]

HeadTip(g) == g.tips[g.head]

\* the outcome of merging the changes hs into the checked-out branch
MergeChanges(g, hs, noCommit) ==
  IF g.merging \/ g.head \notin DOMAIN g.tips THEN Res(FALSE, g)
  ELSE
    LET incoming == hs \ HeadTip(g)
        local == HeadTip(g) \ hs
    IN IF incoming = {} THEN Res(TRUE, g)   \* Already up to date.
       ELSE IF \E a \in incoming, b \in local : {a, b} \in g.conf
       THEN Res(FALSE, [g EXCEPT !.merging = TRUE, !.conflicted = TRUE,
                                 !.mlines = <<g.xy \o " " \o MergePath>>])
       ELSE IF noCommit
       THEN Res(TRUE, [g EXCEPT !.merging = TRUE,
                                !.mlines = <<"M  " \o MergePath>>])
       ELSE Res(TRUE, [g EXCEPT !.tips[g.head] = HeadTip(g) \cup hs])

\* git merge <src> [--no-commit --no-ff]
GitMerge(g, src, noCommit, fail) ==
  IF fail \/ src \notin DOMAIN g.tips THEN Res(FALSE, g)
  ELSE MergeChanges(g, g.tips[src], noCommit)

\* git merge --abort
GitMergeAbort(g, fail) ==
  IF fail \/ ~g.merging THEN Res(FALSE, g)
  ELSE Res(TRUE, [g EXCEPT !.merging = FALSE, !.conflicted = FALSE, !.mlines = <<>>])

\* what a successful switch of branch does to a merge in progress: the merge
\* state is dropped and the staged result stays as local changes
Switched(g, b) ==
  [g EXCEPT !.head = b, !.merging = FALSE, !.mlines = <<>>,
            !.wt = g.mlines \o g.wt]

\* a switch is refused with unmerged paths, and with a staged merge result
\* unless the tip switched to is the commit checked out
CanSwitch(g, tip) ==
  /\ ~g.conflicted
  /\ g.merging => (g.head \in DOMAIN g.tips /\ HeadTip(g) = tip)

\* git checkout <b>; with an empty <b> the command is `git checkout`, which
\* switches nothing; a name known only as origin/<b> is checked out tracking it
GitCheckout(g, b, fail) ==
  IF fail \/ g.conflicted THEN Res(FALSE, g)
  ELSE IF b = "" THEN Res(TRUE, g)
  ELSE IF b \in DOMAIN g.tips
  THEN (IF CanSwitch(g, g.tips[b]) THEN Res(TRUE, Switched(g, b)) ELSE Res(FALSE, g))
  ELSE IF g.origin /\ b \in DOMAIN g.remotes /\ CanSwitch(g, g.remotes[b])
  THEN Res(TRUE, Switched([g EXCEPT !.tips = With(g.tips, b, g.remotes[b])], b))
  ELSE Res(FALSE, g)

\* git checkout -b <b> <start>, <start> a local branch
GitCheckoutNew(g, b, start, fail) ==
  IF fail \/ b \in DOMAIN g.tips \/ start \notin DOMAIN g.tips THEN Res(FALSE, g)
  ELSE IF ~CanSwitch(g, g.tips[start]) THEN Res(FALSE, g)
  ELSE Res(TRUE, Switched([g EXCEPT !.tips = With(g.tips, b, g.tips[start])], b))

\* git checkout -b <b> origin/<b>
GitCheckoutTrack(g, b, fail) ==
  IF fail \/ b \in DOMAIN g.tips \/ ~g.origin \/ b \notin DOMAIN g.remotes
  THEN Res(FALSE, g)
  ELSE IF ~CanSwitch(g, g.remotes[b]) THEN Res(FALSE, g)
  ELSE Res(TRUE, Switched([g EXCEPT !.tips = With(g.tips, b, g.remotes[b])], b))

\* git branch -D <b>
GitBranchDelete(g, b, fail) ==
  IF fail \/ b \notin DOMAIN g.tips \/ b = g.head THEN Res(FALSE, g)
  ELSE Res(TRUE, [g EXCEPT !.tips = Without(g.tips, b)])

\* git stash push -m ...: saves the tracked changes; with none to save it
\* prints "No local changes to save" and exits 0
GitStashPush(g, fail) ==
  IF fail \/ g.conflicted THEN Res(FALSE, g)
  ELSE IF TrackedLines(g.wt) = <<>> THEN Res(TRUE, g)
  ELSE Res(TRUE, [g EXCEPT
         !.stash = <<[lines |-> TrackedLines(g.wt), by |-> "run"]>> \o g.stash,
         !.wt = UntrackedLines(g.wt)])

\* git stash pop
GitStashPop(g, fail) ==
  IF fail \/ g.conflicted \/ g.stash = <<>> THEN Res(FALSE, g)
  ELSE Res(TRUE, [g EXCEPT !.stash = Tail(g.stash),
                           !.wt = Head(g.stash).lines \o g.wt])

\* git pull origin <b>: merges origin's <b> into the checked-out branch
GitPull(g, b, fail) ==
  IF fail \/ ~g.origin \/ b \notin DOMAIN g.remotes THEN Res(FALSE, g)
  ELSE MergeChanges(g, g.remotes[b], FALSE)

\* git push origin <b>: refused unless origin's <b> is contained in <b>
GitPush(g, b, fail) ==
  IF fail \/ ~g.origin \/ b \notin DOMAIN g.tips THEN Res(FALSE, g)
  ELSE IF b \in DOMAIN g.remotes /\ ~(g.remotes[b] \subseteq g.tips[b])
  THEN Res(FALSE, g)
  ELSE Res(TRUE, [g EXCEPT !.remotes = With(g.remotes, b, g.tips[b])])

\* ------------------------------------------------------------ utils/git.js
\* the unmerged-path test of hasConflicts and performDryRunMerge
HasConflictMarkers(status) ==
  Includes(status, "UU") \/ Includes(status, "AA") \/ Includes(status, "DD")

\* getCurrentBranch: git branch --show-current, trimmed
getCurrentBranch(g) == Trim(g.head \o "\n")

\* the name performDryRunMerge gives its k-th temporary branch
TempBranchName(k) == "temp-dry-run-" \o ToString(k)

IsTempBranch(b) == Len(b) >= 13 /\ SubSeq(b, 1, 13) = "temp-dry-run-"

\* the commands performDryRunMerge runs, as the points where one may fail
ProbePoints ==
  {"branch", "checkout-b", "merge", "abort", "status", "abort-catch",
   "checkout-back", "branch-D"}

\* performDryRunMerge, the finally block: back to currentBranch, then delete
\* the temporary branch; a failing checkout skips the delete
DryRunCleanup(g, currentBranch, temp, F) ==
  LET back == GitCheckout(g, currentBranch, "checkout-back" \in F)
  IN IF back.ok THEN GitBranchDelete(back.g, temp, "branch-D" \in F).g ELSE back.g

DryRunResult(g, hc, err, ran, unmerged) ==
  [g |-> g, hasConflicts |-> hc, error |-> err, ran |-> ran, unmerged |-> unmerged]

\* performDryRunMerge, the catch of the trial merge: read the status, abort
DryRunCatch(gm, currentBranch, temp, F) ==
  IF "status" \in F
  THEN DryRunResult(DryRunCleanup(gm, currentBranch, temp, F),
                    FALSE, TRUE, TRUE, gm.conflicted)
  ELSE LET hc == HasConflictMarkers(StatusText(gm))
           ab == GitMergeAbort(gm, "abort-catch" \in F)
       IN IF ab.ok
          THEN DryRunResult(DryRunCleanup(ab.g, currentBranch, temp, F),
                            hc, TRUE, TRUE, gm.conflicted)
          ELSE DryRunResult(DryRunCleanup(gm, currentBranch, temp, F),
                            FALSE, TRUE, TRUE, gm.conflicted)

\* the trial merge: git merge <source> --no-commit --no-ff
DryRunMergeCmd(g, sourceBranch, fail) == GitMerge(g, sourceBranch, TRUE, fail)

\* a probe that merges in place: it checks the target branch out and merges
\* the source into it for real
performDryRunMerge_InPlace(g, sourceBranch, targetBranch, temp, F) ==
  LET co == GitCheckout(g, targetBranch, FALSE)
      m == GitMerge(co.g, sourceBranch, FALSE, FALSE)
  IN DryRunResult(IF co.ok THEN m.g ELSE g, co.ok /\ m.g.conflicted,
                  ~(co.ok /\ m.ok), co.ok, co.ok /\ m.g.conflicted)

\* performDryRunMerge(sourceBranch, targetBranch); temp is the name of the
\* temporary branch and F the commands that fail.  The result carries, beside
\* what the function returns (hasConflicts, error), whether the trial merge
\* was run and whether it left unmerged paths.
performDryRunMerge(g, sourceBranch, targetBranch, temp, F) ==
  IF "branch" \in F
  THEN DryRunResult(DryRunCleanup(g, NullBranch, temp, F), FALSE, TRUE, FALSE, FALSE)
  ELSE
    LET currentBranch == getCurrentBranch(g)
        co == GitCheckoutNew(g, temp, targetBranch, "checkout-b" \in F)
    IN IF ~co.ok
       THEN DryRunResult(DryRunCleanup(g, currentBranch, temp, F),
                         FALSE, TRUE, FALSE, FALSE)
       ELSE
         LET m == DryRunMergeCmd(co.g, sourceBranch, "merge" \in F)
         IN IF m.ok
            THEN LET ab == GitMergeAbort(m.g, "abort" \in F)
                 IN IF ab.ok
                    THEN DryRunResult(DryRunCleanup(ab.g, currentBranch, temp, F),
                                      FALSE, FALSE, TRUE, FALSE)
                    ELSE DryRunCatch(m.g, currentBranch, temp, F)
            ELSE DryRunCatch(m.g, currentBranch, temp, F)

\* isWorkingDirectoryClean: no status line is left once the lines naming one
\* of the tool's own files are dropped
ScriptFiles == {"scripts/stacked-pr-sync.js", "scripts/stacked-pr-config.json"}

RECURSIVE FilteredLines(_)
FilteredLines(lines) ==
  IF lines = <<>> THEN <<>>
  ELSE LET line == Head(lines)
           fileName == Substring(line, 3)
           keep == /\ Trim(line) # ""
                   /\ ~\E scriptFile \in ScriptFiles : Includes(fileName, scriptFile)
       IN (IF keep THEN <<line>> ELSE <<>>) \o FilteredLines(Tail(lines))

isWorkingDirectoryClean(g) ==
  Len(FilteredLines(SplitLines(Trim(StatusText(g))))) = 0

\* hasConflicts: a failing git status counts as no conflict
hasConflicts(g, fail) == ~fail /\ HasConflictMarkers(StatusText(g))

\* an executed git command, as the trace records it: the command, its
\* arguments, its outcome, whether uncommitted changes were in the working
\* tree when it ran, and (for a merge) whether it left unmerged paths
Ev(op, a, b, ok, g) ==
  [op |-> op, a |-> a, b |-> b, ok |-> ok, dirty |-> g.wt # <<>>,
   unmerged |-> FALSE]

\* a switchToBranch that swallows the failure of its checkouts
switchToBranch_Unchecked(g, branchName, F) ==
  LET co == GitCheckout(g, branchName, "checkout" \in F)
  IN [ok |-> TRUE, g |-> co.g,
      evs |-> <<Ev("checkout", branchName, "", co.ok, g)>>]

\* switchToBranch: [ok, g, evs]; not ok is the function throwing
switchToBranch(g, branchName, F) ==
  LET local == branchName \in DOMAIN g.tips /\ "show-ref" \notin F
      co == GitCheckout(g, branchName, "checkout" \in F)
      tr == GitCheckoutTrack(g, branchName, "checkout-b" \in F)
  IN IF local /\ co.ok
     THEN [ok |-> TRUE, g |-> co.g,
           evs |-> <<Ev("checkout", branchName, "", TRUE, g)>>]
     ELSE [ok |-> tr.ok, g |-> tr.g,
           evs |-> (IF local THEN <<Ev("checkout", branchName, "", FALSE, g)>> ELSE <<>>)
                   \o <<Ev("checkout-b", branchName, "origin", tr.ok, g)>>]

\* mergeFromBranch: git merge <sourceBranch>; ok is the value returned
mergeFromBranch(g, sourceBranch, fail) == GitMerge(g, sourceBranch, FALSE, fail)

\* getBranchStatus(branchName).syncStatus
getBranchStatus(g, branchName) ==
  IF branchName \notin DOMAIN g.tips THEN "not-found"
  ELSE IF branchName \notin DOMAIN g.remotes THEN "no-remote"
  ELSE IF g.tips[branchName] = g.remotes[branchName] THEN "in-sync"
  ELSE "out-of-sync"

\* getBranchStatus(branchName), the object it returns.  F holds the commands
\* that fail out of the blue: a failing show-ref is caught by the outer catch,
\* a failing rev-parse by the inner one
getBranchStatusResult(repo, branchName, F) ==
  IF branchName \notin DOMAIN repo.tips \/ <<"show-ref", branchName>> \in F
  THEN [branch |-> branchName, localExists |-> FALSE, remoteExists |-> FALSE,
        isInSync |-> FALSE, syncStatus |-> "not-found"]
  ELSE IF branchName \notin DOMAIN repo.remotes \/ <<"rev-parse", branchName>> \in F
  THEN [branch |-> branchName, localExists |-> TRUE, remoteExists |-> FALSE,
        isInSync |-> FALSE, syncStatus |-> "no-remote"]
  ELSE [branch |-> branchName, localExists |-> TRUE, remoteExists |-> TRUE,
        isInSync |-> repo.tips[branchName] = repo.remotes[branchName],
        syncStatus |-> IF repo.tips[branchName] = repo.remotes[branchName]
                       THEN "in-sync" ELSE "out-of-sync"]

\* ------------------------------------------------------------------ state
VARIABLES
  g,                  \* the repository
  isRepo,             \* the working directory is inside a git repository
  config,             \* what loadConfig returns: "none", "enabled", "disabled"
  configFile,         \* the stacks and the defaultStack of the configuration file
  cliVersion,         \* which parseArguments of utils/cli.js runs: 1 or 2
  args,               \* process.argv.slice(2)
  skipConflictCheck,  \* global.skipConflictCheck
  branches,           \* the stack given to syncStackedPRs
  pc,                 \* where the main flow of the run is
  i,                  \* the index of the loop the main flow is in
  stashAction,        \* syncStackedPRs: "null" or "stashed"
  originalBranch,     \* syncStackedPRs: the branch recorded at the start
  outOfSyncBranches,  \* checkBranchStatuses: the branches found out of sync
  conflicts,          \* checkAllPotentialConflicts: the pairs found conflicting
  exitCode,           \* the code the process ended with, -1 while it runs
  logs,               \* the messages logged that the claims are about
  trace,              \* the git commands executed that change something
  probes,             \* one record per performDryRunMerge call
  tips0,              \* the local branches as they were when the precheck began
  wt0,                \* the uncommitted changes as they were when the run began
  prompts,            \* the readline questions open, oldest first
  syncRest,           \* syncBranchesOneByOne: the branches still to ask about
  pushRest,           \* pushBranchesOneByOne: the branches still to ask about
  fails               \* git commands that failed out of the blue so far

\* what only parseArguments reads or writes
cliState == <<configFile, cliVersion, args, skipConflictCheck>>

vars ==
  <<g, isRepo, config, cliState, branches, pc, i, stashAction, originalBranch,
    outOfSyncBranches, conflicts, exitCode, logs, trace, probes, tips0, wt0,
    prompts, syncRest, pushRest, fails>>

\* the sets of failing commands an action may draw from
FailSets(points) ==
  {F \in SUBSET points : fails + Cardinality(F) <= MaxFailures}

Prompt(kind, branch) == [kind |-> kind, branch |-> branch]

\* -------------------------------------------------------- repositories
EmptyFn == [x \in {} |-> {}]

\* a configuration file that defines no stack
NoStacksFile == [defaultStack |-> "", hasStacks |-> TRUE, stacks |-> EmptyFn]

Stacks == {SubSeq(AllBranches, 1, n) : n \in 2..MaxStackLen}

\* the tip of the k-th branch of a stack: its own change, and the whole of
\* the branch below when k is in upToDate
RECURSIVE StackTip(_, _)
StackTip(k, upToDate) ==
  IF k = 1 THEN {1}
  ELSE {k} \cup (IF k \in upToDate THEN StackTip(k - 1, upToDate) ELSE {})

\* the local branches: the stack's (all, or all but the last) and one more
LocalTips(stack, upToDate, lastExists) ==
  [b \in {stack[k] : k \in 1..(IF lastExists THEN Len(stack) ELSE Len(stack) - 1)}
         \cup {OtherBranch}
     |-> IF b = OtherBranch THEN {0} ELSE StackTip(OwnChange(b), upToDate)]

\* no conflict at all, or one pair of changes of the stack that conflict
ConflictChoices(n) ==
  {{}} \cup {{p} : p \in {q \in SUBSET (1..n) : Cardinality(q) = 2}}

Repo(head, tips, wt, stash, origin, remotes, conf, xy) ==
  [head |-> head, tips |-> tips, merging |-> FALSE, conflicted |-> FALSE,
   mlines |-> <<>>, wt |-> wt, stash |-> stash, origin |-> origin,
   remotes |-> remotes, conf |-> conf, xy |-> xy]

\* ------------------------------------------- checkAllPotentialConflicts
\* one turn of the loop of checkAllPotentialConflicts: the pair
\* (branches[i], branches[i + 1]), counted from 0 as the code does
CheckPair ==
  /\ pc = "precheck"
  /\ i < Len(branches) - 1
  /\ \E F \in FailSets(ProbePoints) :
       LET sourceBranch == branches[i + 1]
           targetBranch == branches[i + 2]
           r == performDryRunMerge(g, sourceBranch, targetBranch,
                                   TempBranchName(Len(probes) + 1), F)
       IN /\ g' = r.g
          /\ conflicts' = IF r.hasConflicts
                          THEN Append(conflicts, <<sourceBranch, targetBranch>>)
                          ELSE conflicts
          /\ probes' = Append(probes,
                         [i |-> i, headBefore |-> g.head,
                          hasConflicts |-> r.hasConflicts, error |-> r.error,
                          ran |-> r.ran, unmerged |-> r.unmerged])
          /\ logs' = Append(logs, IF r.hasConflicts THEN "potential-conflicts"
                                                    ELSE "no-conflicts")
          /\ trace' = Append(trace, Ev("probe", sourceBranch, targetBranch,
                                       ~r.hasConflicts, g))
          /\ fails' = fails + Cardinality(F)
  /\ i' = i + 1
  /\ UNCHANGED <<isRepo, config, cliState, branches, pc, stashAction, originalBranch,
                 outOfSyncBranches, exitCode, tips0, wt0, prompts, syncRest,
                 pushRest>>

\* a precheck that stops after its first pair
CheckDone_AfterFirst ==
  /\ pc = "precheck"
  /\ i >= 1
  /\ pc' = "handlePre"
  /\ UNCHANGED <<g, isRepo, config, cliState, branches, i, stashAction, originalBranch,
                 outOfSyncBranches, conflicts, exitCode, logs, trace, probes,
                 tips0, wt0, prompts, syncRest, pushRest, fails>>

\* checkAllPotentialConflicts returns the conflicts
CheckDone ==
  /\ pc = "precheck"
  /\ i >= Len(branches) - 1
  /\ pc' = "handlePre"
  /\ UNCHANGED <<g, isRepo, config, cliState, branches, i, stashAction, originalBranch,
                 outOfSyncBranches, conflicts, exitCode, logs, trace, probes,
                 tips0, wt0, prompts, syncRest, pushRest, fails>>

\* checkAllPotentialConflicts called on a repository in any state
ProbeWt == {<<>>, <<"?? notes.txt">>, <<"?? ADDRESS.md">>}

InitProbe ==
  /\ \E stack \in Stacks, lastExists \in BOOLEAN, xy \in UnmergedXY,
        head \in {OtherBranch, "", AllBranches[1]}, wt \in ProbeWt :
       \E upToDate \in SUBSET (2..Len(stack)), conf \in ConflictChoices(Len(stack)) :
          /\ (conf = {}) => (xy = "UU")
          /\ branches = stack
          /\ g = Repo(head, LocalTips(stack, upToDate, lastExists), wt, <<>>,
                      FALSE, EmptyFn, conf, xy)
  /\ tips0 = g.tips
  /\ wt0 = g.wt
  /\ pc = "precheck"
  /\ i = 0
  /\ conflicts = <<>>
  /\ probes = <<>>
  /\ trace = <<>>
  /\ logs = <<>>
  /\ fails = 0
  /\ isRepo = TRUE
  /\ config = "none"
  /\ configFile = NoStacksFile
  /\ cliVersion = 2
  /\ args = branches
  /\ skipConflictCheck = FALSE
  /\ stashAction = "null"
  /\ originalBranch = ""
  /\ outOfSyncBranches = <<>>
  /\ exitCode = -1
  /\ prompts = <<>>
  /\ syncRest = <<>>
  /\ pushRest = <<>>

NextProbe == CheckPair \/ CheckDone

SpecProbe == InitProbe /\ [][NextProbe]_vars

\* ------------------------------------------------------ utils/cli.js
\* Array.prototype.includes
ArgsInclude(argv, flag) == \E k \in DOMAIN argv : argv[k] = flag

\* String.prototype.startsWith
StartsWith(s, t) == Len(s) >= Len(t) /\ SubSeq(s, 1, Len(t)) = t

\* args.filter((arg) => !flags.includes(arg))
FilterArgs(argv, flags) ==
  LET Kept(a) == a \notin flags
  IN SelectSeq(argv, Kept)

\* loadConfig() is null when there is no configuration file
ConfigLoaded(cfg) == cfg # "none"

\* config.stacks[name] is truthy
HasStack(file, name) == name \in DOMAIN file.stacks

\* what parseArguments does: it returns the branches, or the process exits
Parsed(bs, skip) ==
  [exit |-> FALSE, code |-> -1, branches |-> bs, skip |-> skip, msg |-> "-"]

ParseExit(code, skip, msg) ==
  [exit |-> TRUE, code |-> code, branches |-> <<>>, skip |-> skip, msg |-> msg]

\* reading a property of config.stacks when the file has no stacks: the
\* TypeError leaves parseArguments, and the process ends with 1
StacksTypeError(skip) == ParseExit(1, skip, "cli-type-error")

\* parseArguments of the earlier cli.js: --help, then the default stack, a
\* stack name, or the arguments as the branch list
parseArgumentsV1(argv, cfg, file) ==
  LET filteredArgs == FilterArgs(argv, {"--help", "-h"})
  IN IF ArgsInclude(argv, "--help") \/ ArgsInclude(argv, "-h")
     THEN ParseExit(0, FALSE, "help")
     ELSE IF Len(filteredArgs) = 0
     THEN (IF ConfigLoaded(cfg) /\ file.defaultStack # "" /\ ~file.hasStacks
           THEN StacksTypeError(FALSE)
           ELSE IF ConfigLoaded(cfg) /\ file.defaultStack # ""
                   /\ HasStack(file, file.defaultStack)
           THEN Parsed(file.stacks[file.defaultStack], FALSE)
           ELSE ParseExit(1, FALSE, "no-branches-specified"))
     ELSE IF Len(filteredArgs) = 1 /\ ~StartsWith(filteredArgs[1], "-")
     THEN (IF ConfigLoaded(cfg) /\ ~file.hasStacks
           THEN StacksTypeError(FALSE)
           ELSE IF ConfigLoaded(cfg) /\ HasStack(file, filteredArgs[1])
           THEN Parsed(file.stacks[filteredArgs[1]], FALSE)
           ELSE Parsed(filteredArgs, FALSE))
     ELSE Parsed(filteredArgs, FALSE)

\* a parseArguments that goes on with an empty branch list when no branch is
\* given and there is no default stack
parseArguments_EmptyStack(argv, cfg, file) ==
  LET skip == ArgsInclude(argv, "--skip-conflict-check") \/ ArgsInclude(argv, "-s")
      filteredArgs ==
        FilterArgs(argv, {"--skip-conflict-check", "-s", "--config", "-c"})
  IN IF ArgsInclude(argv, "--help") \/ ArgsInclude(argv, "-h")
     THEN ParseExit(0, FALSE, "help")
     ELSE IF ArgsInclude(argv, "--list") \/ ArgsInclude(argv, "-l")
             \/ ArgsInclude(argv, "--config") \/ ArgsInclude(argv, "-c")
     THEN (IF ConfigLoaded(cfg) /\ ~file.hasStacks
           THEN StacksTypeError(FALSE)
           ELSE ParseExit(0, FALSE, "stacks-listed"))
     ELSE IF Len(filteredArgs) = 1 /\ ~StartsWith(filteredArgs[1], "-")
     THEN (IF ConfigLoaded(cfg) /\ ~file.hasStacks
           THEN StacksTypeError(skip)
           ELSE IF ConfigLoaded(cfg) /\ HasStack(file, filteredArgs[1])
           THEN Parsed(file.stacks[filteredArgs[1]], skip)
           ELSE ParseExit(1, skip, "stack-not-found"))
     ELSE IF Len(filteredArgs) = 0
     THEN (IF ConfigLoaded(cfg) /\ file.defaultStack # "" /\ ~file.hasStacks
           THEN StacksTypeError(skip)
           ELSE IF ConfigLoaded(cfg) /\ file.defaultStack # ""
                   /\ HasStack(file, file.defaultStack)
           THEN Parsed(file.stacks[file.defaultStack], skip)
           ELSE Parsed(filteredArgs, skip))
     ELSE Parsed(filteredArgs, skip)

\* parseArguments: --help, --list and --config end the process; the skip
\* flag is stored in global.skipConflictCheck; then a stack name, the
\* default stack, or the arguments as the branch list
parseArguments(argv, cfg, file) ==
  LET skip == ArgsInclude(argv, "--skip-conflict-check") \/ ArgsInclude(argv, "-s")
      filteredArgs ==
        FilterArgs(argv, {"--skip-conflict-check", "-s", "--config", "-c"})
  IN IF ArgsInclude(argv, "--help") \/ ArgsInclude(argv, "-h")
     THEN ParseExit(0, FALSE, "help")
     ELSE IF ArgsInclude(argv, "--list") \/ ArgsInclude(argv, "-l")
             \/ ArgsInclude(argv, "--config") \/ ArgsInclude(argv, "-c")
     THEN (IF ConfigLoaded(cfg) /\ ~file.hasStacks
           THEN StacksTypeError(FALSE)
           ELSE ParseExit(0, FALSE, "stacks-listed"))
     ELSE IF Len(filteredArgs) = 1 /\ ~StartsWith(filteredArgs[1], "-")
     THEN (IF ConfigLoaded(cfg) /\ ~file.hasStacks
           THEN StacksTypeError(skip)
           ELSE IF ConfigLoaded(cfg) /\ HasStack(file, filteredArgs[1])
           THEN Parsed(file.stacks[filteredArgs[1]], skip)
           ELSE ParseExit(1, skip, "stack-not-found"))
     ELSE IF Len(filteredArgs) = 0
     THEN (IF ConfigLoaded(cfg) /\ file.defaultStack # "" /\ ~file.hasStacks
           THEN StacksTypeError(skip)
           ELSE IF ConfigLoaded(cfg) /\ file.defaultStack # ""
                   /\ HasStack(file, file.defaultStack)
           THEN Parsed(file.stacks[file.defaultStack], skip)
           ELSE ParseExit(1, skip, "help"))
     ELSE Parsed(filteredArgs, skip)

\* --------------------------------------------------- sync-manager.js
\* checkOriginExists is imported from utils/git; it tells whether a remote
\* named origin exists
checkOriginExists(repo) == repo.origin

\* process.exit(code): the process and every task of it end
Exit(code) ==
  /\ pc' = "exited"
  /\ exitCode' = code
  /\ prompts' = <<>>
  /\ syncRest' = <<>>
  /\ pushRest' = <<>>

Alive == UNCHANGED <<exitCode, prompts, syncRest, pushRest>>

\* where the main flow goes when it enters a loop over n items
LoopPc(n, body, after) == IF 0 < n THEN body ELSE after

\* syncStackedPRs, the repository check
Start ==
  /\ pc = "start"
  /\ IF isRepo
     THEN pc' = "preflight" /\ Alive /\ UNCHANGED logs
     ELSE Exit(1) /\ logs' = Append(logs, "not-a-repository")
  /\ UNCHANGED <<g, isRepo, config, cliState, branches, i, stashAction, originalBranch,
                 outOfSyncBranches, conflicts, trace, probes, tips0, wt0, fails>>

\* a preflight whose handleUncommittedChanges returns after a failed stash
\* instead of exiting
Preflight_StashFailureIgnored ==
  /\ pc = "preflight"
  /\ LET clean == isWorkingDirectoryClean(g)
     IN \E F \in FailSets({"status", "branch"} \cup (IF clean THEN {} ELSE {"stash"})) :
          LET sp == GitStashPush(g, "stash" \in F)
              g1 == IF clean THEN g ELSE sp.g
              tr1 == IF clean THEN trace
                     ELSE Append(trace, Ev("stash-push", "", "", sp.ok, g))
          IN /\ fails' = fails + Cardinality(F)
             /\ IF "status" \in F
                THEN /\ Exit(1)
                     /\ logs' = Append(logs, "sync-failed")
                     /\ UNCHANGED <<g, trace, stashAction, originalBranch>>
                ELSE IF ~clean /\ ~sp.ok
                THEN /\ pc' = "status" /\ Alive
                     /\ logs' = Append(logs, "stash-failed")
                     /\ g' = g1 /\ trace' = tr1
                     /\ stashAction' = "null"
                     /\ originalBranch' = getCurrentBranch(g1)
                ELSE IF "branch" \in F
                THEN /\ Exit(1)
                     /\ logs' = Append(logs, "sync-failed")
                     /\ g' = g1 /\ trace' = tr1
                     /\ stashAction' = IF clean THEN "null" ELSE "stashed"
                     /\ UNCHANGED originalBranch
                ELSE /\ pc' = "status" /\ Alive
                     /\ logs' = IF clean THEN logs ELSE Append(logs, "stashed")
                     /\ g' = g1 /\ trace' = tr1
                     /\ stashAction' = IF clean THEN "null" ELSE "stashed"
                     /\ originalBranch' = getCurrentBranch(g1)
  /\ UNCHANGED <<isRepo, config, cliState, branches, i, outOfSyncBranches, conflicts,
                 probes, tips0, wt0>>

\* syncStackedPRs up to the try: isWorkingDirectoryClean, handleUncommittedChanges
\* (git stash push), getCurrentBranch.  What throws here rejects the promise
\* syncStackedPRs returns, and the caller exits with 1.
Preflight ==
  /\ pc = "preflight"
  /\ LET clean == isWorkingDirectoryClean(g)
     IN \E F \in FailSets({"status", "branch"} \cup (IF clean THEN {} ELSE {"stash"})) :
          LET sp == GitStashPush(g, "stash" \in F)
              g1 == IF clean THEN g ELSE sp.g
              tr1 == IF clean THEN trace
                     ELSE Append(trace, Ev("stash-push", "", "", sp.ok, g))
          IN /\ fails' = fails + Cardinality(F)
             /\ IF "status" \in F
                THEN /\ Exit(1)
                     /\ logs' = Append(logs, "sync-failed")
                     /\ UNCHANGED <<g, trace, stashAction, originalBranch>>
                ELSE IF ~clean /\ ~sp.ok
                THEN /\ Exit(1)
                     /\ logs' = Append(logs, "stash-failed")
                     /\ g' = g1 /\ trace' = tr1
                     /\ UNCHANGED <<stashAction, originalBranch>>
                ELSE IF "branch" \in F
                THEN /\ Exit(1)
                     /\ logs' = Append(logs, "sync-failed")
                     /\ g' = g1 /\ trace' = tr1
                     /\ stashAction' = IF clean THEN "null" ELSE "stashed"
                     /\ UNCHANGED originalBranch
                ELSE /\ pc' = "status" /\ Alive
                     /\ logs' = IF clean THEN logs ELSE Append(logs, "stashed")
                     /\ g' = g1 /\ trace' = tr1
                     /\ stashAction' = IF clean THEN "null" ELSE "stashed"
                     /\ originalBranch' = getCurrentBranch(g1)
  /\ UNCHANGED <<isRepo, config, cliState, branches, i, outOfSyncBranches, conflicts,
                 probes, tips0, wt0>>

\* the git commands of checkBranchStatuses that may fail out of the blue
StatusPoints(bs) ==
  {<<cmd, bs[k]>> : cmd \in {"show-ref", "rev-parse"}, k \in DOMAIN bs}

\* checkBranchStatuses(branches).outOfSyncBranches
checkBranchStatuses(repo, bs, F) ==
  LET OutOfSync(b) == getBranchStatusResult(repo, b, F).syncStatus = "out-of-sync"
  IN SelectSeq(bs, OutOfSync)

\* checkBranchStatuses, the line it logs for one branch
StatusLine(b, syncStatus) == b \o ": " \o syncStatus

\* a report in which one failing query makes every branch not-found
StatusReport_FailureAffectsAll(repo, bs, F) ==
  [k \in DOMAIN bs |->
     StatusLine(bs[k], IF F = {} THEN getBranchStatusResult(repo, bs[k], F).syncStatus
                       ELSE "not-found")]

\* checkBranchStatuses, the lines of its report
StatusReport(repo, bs, F) ==
  [k \in DOMAIN bs |->
     StatusLine(bs[k], getBranchStatusResult(repo, bs[k], F).syncStatus)]

\* syncStackedPRs, steps 1 and 2: the status report, then the prompt when a
\* branch is out of sync and origin exists
RemoteSyncCheck ==
  /\ pc = "status"
  /\ \E F \in FailSets(StatusPoints(branches)) :
       LET out == checkBranchStatuses(g, branches, F)
           report == StatusReport(g, branches, F)
           originExists == checkOriginExists(g)
       IN /\ fails' = fails + Cardinality(F)
          /\ outOfSyncBranches' = out
          /\ IF out # <<>> /\ originExists
             THEN /\ pc' = "syncPrompt"
                  /\ prompts' = <<Prompt("syncMenu", "")>>
                  /\ logs' = logs \o report \o <<"out-of-sync-prompt">>
             ELSE /\ pc' = "config"
                  /\ prompts' = prompts
                  /\ logs' = logs \o report \o
                       <<IF out # <<>> THEN "no-origin-continue"
                         ELSE IF originExists THEN "all-in-sync" ELSE "no-origin-local">>
  /\ UNCHANGED <<g, isRepo, config, cliState, branches, i, stashAction, originalBranch,
                 conflicts, exitCode, trace, probes, tips0, wt0, syncRest,
                 pushRest>>

\* a syncAllBranches that gives up at the first branch it fails to sync
SyncAllStep_StopOnFailure ==
  /\ pc = "syncAll"
  /\ i < Len(outOfSyncBranches)
  /\ \E F \in FailSets({"checkout", "pull"}) :
       LET branch == outOfSyncBranches[i + 1]
           co == GitCheckout(g, branch, "checkout" \in F)
           pl == GitPull(co.g, branch, "pull" \in F)
       IN /\ fails' = fails + Cardinality(F)
          /\ g' = IF co.ok THEN pl.g ELSE co.g
          /\ trace' = trace \o <<Ev("checkout", branch, "", co.ok, g)>>
                      \o (IF co.ok THEN <<Ev("pull", branch, "", pl.ok, co.g)>> ELSE <<>>)
          /\ logs' = Append(logs, IF co.ok /\ pl.ok THEN "synced-one"
                                  ELSE "failed-to-sync-one")
          /\ pc' = IF co.ok /\ pl.ok THEN pc ELSE "config"
  /\ i' = i + 1
  /\ UNCHANGED <<isRepo, config, cliState, branches, stashAction, originalBranch,
                 outOfSyncBranches, conflicts, exitCode, probes, tips0,
                 wt0, prompts, syncRest, pushRest>>

\* syncAllBranches, one turn of its loop: checkout and pull; a failure of
\* either is caught and logged, and the loop goes on
SyncAllStep ==
  /\ pc = "syncAll"
  /\ i < Len(outOfSyncBranches)
  /\ \E F \in FailSets({"checkout", "pull"}) :
       LET branch == outOfSyncBranches[i + 1]
           co == GitCheckout(g, branch, "checkout" \in F)
           pl == GitPull(co.g, branch, "pull" \in F)
       IN /\ fails' = fails + Cardinality(F)
          /\ g' = IF co.ok THEN pl.g ELSE co.g
          /\ trace' = trace \o <<Ev("checkout", branch, "", co.ok, g)>>
                      \o (IF co.ok THEN <<Ev("pull", branch, "", pl.ok, co.g)>> ELSE <<>>)
          /\ logs' = Append(logs, IF co.ok /\ pl.ok THEN "synced-one"
                                  ELSE "failed-to-sync-one")
  /\ i' = i + 1
  /\ UNCHANGED <<isRepo, config, cliState, branches, pc, stashAction, originalBranch,
                 outOfSyncBranches, conflicts, exitCode, probes, tips0,
                 wt0, prompts, syncRest, pushRest>>

\* syncAllBranches returns and handleOutOfSyncBranches resolves
SyncAllEnd ==
  /\ pc = "syncAll"
  /\ i >= Len(outOfSyncBranches)
  /\ pc' = "config"
  /\ UNCHANGED <<g, isRepo, config, cliState, branches, i, stashAction, originalBranch,
                 outOfSyncBranches, conflicts, exitCode, logs, trace, probes,
                 tips0, wt0, prompts, syncRest, pushRest, fails>>

\* syncStackedPRs, step 3: loadConfig and shouldCheckConflicts
shouldCheckConflicts(c) == c = "none" \/ c = "enabled"

EnterPrecheck ==
  /\ pc = "config"
  /\ i' = 0
  /\ IF shouldCheckConflicts(config)
     THEN pc' = "precheck" /\ tips0' = g.tips /\ logs' = logs
     ELSE /\ pc' = LoopPc(Len(branches) - 1, "mergeLoop", "afterLoop")
          /\ tips0' = tips0
          /\ logs' = Append(logs, "skip-pre-conflict-check")
  /\ UNCHANGED <<g, isRepo, config, cliState, branches, stashAction, originalBranch,
                 outOfSyncBranches, conflicts, exitCode, trace, probes, wt0,
                 prompts, syncRest, pushRest, fails>>

\* a handler that goes on to the merges whatever the precheck has found
handlePreDetectedConflicts_Proceed ==
  /\ pc = "handlePre"
  /\ pc' = LoopPc(Len(branches) - 1, "mergeLoop", "afterLoop")
  /\ i' = 0
  /\ logs' = Append(logs, IF conflicts = <<>> THEN "safe-to-proceed"
                          ELSE "conflicts-detected")
  /\ Alive
  /\ UNCHANGED <<g, isRepo, config, cliState, branches, stashAction, originalBranch,
                 outOfSyncBranches, conflicts, trace, probes, tips0, wt0, fails>>

\* handlePreDetectedConflicts: with no conflict the run goes on; with
\* conflicts the function lists them and then calls logWarning, a name the
\* module does not import: the ReferenceError rejects the promise, and the
\* catch of syncStackedPRs logs it and exits with 1
handlePreDetectedConflicts ==
  /\ pc = "handlePre"
  /\ IF conflicts = <<>>
     THEN /\ pc' = LoopPc(Len(branches) - 1, "mergeLoop", "afterLoop")
          /\ i' = 0
          /\ logs' = Append(logs, "safe-to-proceed")
          /\ Alive
     ELSE /\ Exit(1)
          /\ i' = i
          /\ logs' = logs \o <<"conflicts-detected", "error-during-sync">>
  /\ UNCHANGED <<g, isRepo, config, cliState, branches, stashAction, originalBranch,
                 outOfSyncBranches, conflicts, trace, probes, tips0, wt0, fails>>

\* a merge loop that takes a failed switch of branch like a failed merge:
\* it logs it and leaves the loop
MergeStep_CheckoutFailureBreaks ==
  /\ pc = "mergeLoop"
  /\ i < Len(branches) - 1
  /\ LET currentBranch == branches[i + 1]
         nextBranch == branches[i + 2]
     IN \E F \in FailSets({"show-ref", "checkout", "checkout-b", "merge", "status"}) :
          LET sw == switchToBranch(g, nextBranch, F)
              m == mergeFromBranch(sw.g, currentBranch, "merge" \in F)
              tr1 == trace \o sw.evs
              tr2 == Append(tr1, [Ev("merge", currentBranch, sw.g.head, m.ok, sw.g)
                                  EXCEPT !.unmerged = m.g.conflicted])
          IN /\ fails' = fails + Cardinality(F)
             /\ IF ~sw.ok
                THEN /\ pc' = "afterLoop" /\ Alive
                     /\ g' = sw.g /\ trace' = tr1 /\ i' = i
                     /\ logs' = Append(logs, "failed-to-switch")
                ELSE IF m.ok
                THEN /\ pc' = LoopPc(Len(branches) - 1 - (i + 1), "mergeLoop", "afterLoop")
                     /\ Alive
                     /\ g' = m.g /\ trace' = tr2 /\ i' = i + 1
                     /\ logs' = logs
                ELSE IF hasConflicts(m.g, "status" \in F)
                THEN /\ Exit(1)
                     /\ g' = m.g /\ trace' = tr2 /\ i' = i
                     /\ logs' = Append(logs, "conflicts-sync-aborted")
                ELSE /\ pc' = "afterLoop" /\ Alive
                     /\ g' = m.g /\ trace' = tr2 /\ i' = i
                     /\ logs' = Append(logs, "failed-to-merge")
  /\ UNCHANGED <<isRepo, config, cliState, branches, stashAction, originalBranch,
                 outOfSyncBranches, conflicts, probes, tips0, wt0>>

\* a merge loop that tries a merge again when it failed without a conflict
MergeStep_RetryOnFailure ==
  /\ pc = "mergeLoop"
  /\ i < Len(branches) - 1
  /\ LET currentBranch == branches[i + 1]
         nextBranch == branches[i + 2]
     IN \E F \in FailSets({"show-ref", "checkout", "checkout-b", "merge", "status"}) :
          LET sw == switchToBranch(g, nextBranch, F)
              m == mergeFromBranch(sw.g, currentBranch, "merge" \in F)
              tr1 == trace \o sw.evs
              tr2 == Append(tr1, [Ev("merge", currentBranch, sw.g.head, m.ok, sw.g)
                                  EXCEPT !.unmerged = m.g.conflicted])
          IN /\ fails' = fails + Cardinality(F)
             /\ IF ~sw.ok
                THEN /\ Exit(1)
                     /\ g' = sw.g /\ trace' = tr1 /\ i' = i
                     /\ logs' = Append(logs, "error-during-sync")
                ELSE IF m.ok
                THEN /\ pc' = LoopPc(Len(branches) - 1 - (i + 1), "mergeLoop", "afterLoop")
                     /\ Alive
                     /\ g' = m.g /\ trace' = tr2 /\ i' = i + 1
                     /\ logs' = logs
                ELSE IF hasConflicts(m.g, "status" \in F)
                THEN /\ Exit(1)
                     /\ g' = m.g /\ trace' = tr2 /\ i' = i
                     /\ logs' = Append(logs, "conflicts-sync-aborted")
                ELSE /\ pc' = IF "merge" \in F THEN "mergeLoop" ELSE "afterLoop"
                     /\ Alive
                     /\ g' = m.g /\ trace' = tr2 /\ i' = i
                     /\ logs' = Append(logs, "failed-to-merge")
  /\ UNCHANGED <<isRepo, config, cliState, branches, stashAction, originalBranch,
                 outOfSyncBranches, conflicts, probes, tips0, wt0>>

\* syncStackedPRs, step 4, one turn of the loop: switchToBranch(nextBranch),
\* mergeFromBranch(currentBranch), and on failure hasConflicts: handleConflicts
\* exits with 1, anything else breaks out of the loop
MergeStep ==
  /\ pc = "mergeLoop"
  /\ i < Len(branches) - 1
  /\ LET currentBranch == branches[i + 1]
         nextBranch == branches[i + 2]
     IN \E F \in FailSets({"show-ref", "checkout", "checkout-b", "merge", "status"}) :
          LET sw == switchToBranch(g, nextBranch, F)
              m == mergeFromBranch(sw.g, currentBranch, "merge" \in F)
              tr1 == trace \o sw.evs
              tr2 == Append(tr1, [Ev("merge", currentBranch, sw.g.head, m.ok, sw.g)
                                  EXCEPT !.unmerged = m.g.conflicted])
          IN /\ fails' = fails + Cardinality(F)
             /\ IF ~sw.ok
                THEN /\ Exit(1)
                     /\ g' = sw.g /\ trace' = tr1 /\ i' = i
                     /\ logs' = Append(logs, "error-during-sync")
                ELSE IF m.ok
                THEN /\ pc' = LoopPc(Len(branches) - 1 - (i + 1), "mergeLoop", "afterLoop")
                     /\ Alive
                     /\ g' = m.g /\ trace' = tr2 /\ i' = i + 1
                     /\ logs' = logs
                ELSE IF hasConflicts(m.g, "status" \in F)
                THEN /\ Exit(1)
                     /\ g' = m.g /\ trace' = tr2 /\ i' = i
                     /\ logs' = Append(logs, "conflicts-sync-aborted")
                ELSE /\ pc' = "afterLoop" /\ Alive
                     /\ g' = m.g /\ trace' = tr2 /\ i' = i
                     /\ logs' = Append(logs, "failed-to-merge")
  /\ UNCHANGED <<isRepo, config, cliState, branches, stashAction, originalBranch,
                 outOfSyncBranches, conflicts, probes, tips0, wt0>>

\* syncStackedPRs after the loop: the success message, then step 5
AfterLoop ==
  /\ pc = "afterLoop"
  /\ IF checkOriginExists(g)
     THEN /\ pc' = "pushPrompt"
          /\ prompts' = Append(prompts, Prompt("pushMenu", ""))
          /\ logs' = logs \o <<"sync-completed-successfully", "push-prompt">>
     ELSE /\ pc' = "restore"
          /\ prompts' = prompts
          /\ logs' = logs \o <<"sync-completed-successfully", "skip-push-options">>
  /\ UNCHANGED <<g, isRepo, config, cliState, branches, i, stashAction, originalBranch,
                 outOfSyncBranches, conflicts, exitCode, trace, probes, tips0,
                 wt0, syncRest, pushRest, fails>>

\* a pushAllBranches that gives up at the first push that fails
PushAllStep_StopOnFailure ==
  /\ pc = "pushAll"
  /\ i < Len(Tail(branches))
  /\ \E F \in FailSets({"push"}) :
       LET branch == Tail(branches)[i + 1]
           ps == GitPush(g, branch, "push" \in F)
       IN /\ fails' = fails + Cardinality(F)
          /\ g' = ps.g
          /\ trace' = Append(trace, Ev("push", branch, "", ps.ok, g))
          /\ pc' = IF ps.ok THEN pc ELSE "restore"
  /\ i' = i + 1
  /\ UNCHANGED <<isRepo, config, cliState, branches, stashAction, originalBranch,
                 outOfSyncBranches, conflicts, exitCode, logs, probes, tips0,
                 wt0, prompts, syncRest, pushRest>>

\* pushAllBranches(branches.slice(1)), one turn of its loop
PushAllStep ==
  /\ pc = "pushAll"
  /\ i < Len(Tail(branches))
  /\ \E F \in FailSets({"push"}) :
       LET branch == Tail(branches)[i + 1]
           ps == GitPush(g, branch, "push" \in F)
       IN /\ fails' = fails + Cardinality(F)
          /\ g' = ps.g
          /\ trace' = Append(trace, Ev("push", branch, "", ps.ok, g))
  /\ i' = i + 1
  /\ UNCHANGED <<isRepo, config, cliState, branches, pc, stashAction, originalBranch,
                 outOfSyncBranches, conflicts, exitCode, logs, probes, tips0,
                 wt0, prompts, syncRest, pushRest>>

\* pushAllBranches returns and askToPushChanges resolves
PushAllEnd ==
  /\ pc = "pushAll"
  /\ i >= Len(Tail(branches))
  /\ pc' = "restore"
  /\ UNCHANGED <<g, isRepo, config, cliState, branches, i, stashAction, originalBranch,
                 outOfSyncBranches, conflicts, exitCode, logs, trace, probes,
                 tips0, wt0, prompts, syncRest, pushRest, fails>>

\* a restore for which a failed git stash pop is an error of the run
Restore_PopFatal ==
  /\ pc = "restore"
  /\ LET moved == originalBranch # getCurrentBranch(g)
         points == {"branch"}
                   \cup (IF moved THEN {"show-ref", "checkout", "checkout-b"} ELSE {})
                   \cup (IF stashAction = "stashed" THEN {"pop"} ELSE {})
     IN \E F \in FailSets(points) :
          LET sw == switchToBranch(g, originalBranch, F)
              g1 == IF moved THEN sw.g ELSE g
              tr1 == IF moved THEN trace \o sw.evs ELSE trace
              pop == GitStashPop(g1, "pop" \in F)
          IN /\ fails' = fails + Cardinality(F)
             /\ IF "branch" \in F
                THEN /\ Exit(1)
                     /\ logs' = Append(logs, "error-during-sync")
                     /\ UNCHANGED <<g, trace>>
                ELSE IF moved /\ ~sw.ok
                THEN /\ Exit(1)
                     /\ logs' = Append(logs, "error-during-sync")
                     /\ g' = g1 /\ trace' = tr1
                ELSE IF stashAction = "stashed" /\ ~pop.ok
                THEN /\ Exit(1)
                     /\ g' = pop.g
                     /\ trace' = Append(tr1, Ev("stash-pop", "", "", pop.ok, g1))
                     /\ logs' = logs \o <<"stash-restore-warning", "error-during-sync">>
                ELSE IF stashAction = "stashed"
                THEN /\ pc' = "resolved" /\ Alive
                     /\ g' = pop.g
                     /\ trace' = Append(tr1, Ev("stash-pop", "", "", pop.ok, g1))
                     /\ logs' = logs \o <<IF pop.ok THEN "stash-restored"
                                          ELSE "stash-restore-warning",
                                          "script-completed">>
                ELSE /\ pc' = "resolved" /\ Alive
                     /\ g' = g1 /\ trace' = tr1
                     /\ logs' = Append(logs, "script-completed")
  /\ UNCHANGED <<isRepo, config, cliState, branches, i, stashAction, originalBranch,
                 outOfSyncBranches, conflicts, probes, tips0, wt0>>

\* syncStackedPRs, the end of the try: back to the original branch, git
\* stash pop when a stash was taken; the promise resolves
Restore ==
  /\ pc = "restore"
  /\ LET moved == originalBranch # getCurrentBranch(g)
         points == {"branch"}
                   \cup (IF moved THEN {"show-ref", "checkout", "checkout-b"} ELSE {})
                   \cup (IF stashAction = "stashed" THEN {"pop"} ELSE {})
     IN \E F \in FailSets(points) :
          LET sw == switchToBranch(g, originalBranch, F)
              g1 == IF moved THEN sw.g ELSE g
              tr1 == IF moved THEN trace \o sw.evs ELSE trace
              pop == GitStashPop(g1, "pop" \in F)
          IN /\ fails' = fails + Cardinality(F)
             /\ IF "branch" \in F
                THEN /\ Exit(1)
                     /\ logs' = Append(logs, "error-during-sync")
                     /\ UNCHANGED <<g, trace>>
                ELSE IF moved /\ ~sw.ok
                THEN /\ Exit(1)
                     /\ logs' = Append(logs, "error-during-sync")
                     /\ g' = g1 /\ trace' = tr1
                ELSE IF stashAction = "stashed"
                THEN /\ pc' = "resolved" /\ Alive
                     /\ g' = pop.g
                     /\ trace' = Append(tr1, Ev("stash-pop", "", "", pop.ok, g1))
                     /\ logs' = logs \o <<IF pop.ok THEN "stash-restored"
                                          ELSE "stash-restore-warning",
                                          "script-completed">>
                ELSE /\ pc' = "resolved" /\ Alive
                     /\ g' = g1 /\ trace' = tr1
                     /\ logs' = Append(logs, "script-completed")
  /\ UNCHANGED <<isRepo, config, cliState, branches, i, stashAction, originalBranch,
                 outOfSyncBranches, conflicts, probes, tips0, wt0>>

\* the promise has resolved and no question is open: the process ends with 0
Finish ==
  /\ pc = "resolved"
  /\ prompts = <<>>
  /\ pc' = "exited"
  /\ exitCode' = 0
  /\ UNCHANGED <<g, isRepo, config, cliState, branches, i, stashAction, originalBranch,
                 outOfSyncBranches, conflicts, logs, trace, probes, tips0,
                 wt0, prompts, syncRest, pushRest, fails>>

\* ------------------------------------------------ the questions asked
\* the lines the user may type
Lines == {"1", "2", "3", "4", "y"}

\* askToSyncBranch, askToPushBranch: what the answer resolves to
IsYes(answer) == Trim(answer) = "y" \/ Trim(answer) = "yes"

\* what one line of input has done so far: the repository, the questions
\* opened, whether process.exit was called, where the main flow resumes, and
\* the one-by-one loops the line has woken
Turn(repo) ==
  [g |-> repo, trace |-> trace, logs |-> logs, open |-> <<>>,
   syncRest |-> syncRest, pushRest |-> pushRest, next |-> "-",
   dead |-> FALSE, conts |-> <<>>]

\* syncBranchesOneByOne reaches its next await askToSyncBranch
NextSync(w) ==
  IF w.syncRest = <<>> THEN w
  ELSE [w EXCEPT !.open = Append(@, Prompt("syncOne", Head(w.syncRest))),
                 !.syncRest = Tail(@)]

\* pushBranchesOneByOne reaches its next await askToPushBranch
NextPush(w) ==
  IF w.pushRest = <<>> THEN w
  ELSE [w EXCEPT !.open = Append(@, Prompt("pushOne", Head(w.pushRest))),
                 !.pushRest = Tail(@)]

\* a callback that takes an invalid choice at the out-of-sync menu for
\* "continue without syncing"
Callback_InvalidContinues(w, p, answer) ==
  LET choice == Trim(answer)
  IN IF p.kind = "syncMenu"
     THEN (IF choice = "1"
           THEN [w EXCEPT !.next = "syncAll", !.logs = Append(@, "auto-syncing")]
           ELSE IF choice = "2"
           THEN NextSync([w EXCEPT !.next = "config",
                                   !.syncRest = outOfSyncBranches,
                                   !.logs = Append(@, "syncing-one-by-one")])
           ELSE IF choice = "3"
           THEN [w EXCEPT !.next = "config",
                          !.logs = Append(@, "continuing-without-syncing")]
           ELSE IF choice = "4"
           THEN [w EXCEPT !.dead = TRUE, !.logs = Append(@, "aborted-by-user")]
           ELSE [w EXCEPT !.next = "config",
                          !.logs = Append(@, "invalid-choice-aborting")])
     ELSE IF p.kind = "pushMenu"
     THEN (IF choice = "1"
           THEN [w EXCEPT !.next = "pushAll", !.logs = Append(@, "pushing-all")]
           ELSE IF choice = "2"
           THEN NextPush([w EXCEPT !.next = "restore", !.pushRest = Tail(branches)])
           ELSE IF choice = "3"
           THEN [w EXCEPT !.next = "restore", !.logs = Append(@, "skipping-push")]
           ELSE [w EXCEPT !.next = "restore",
                          !.logs = Append(@, "invalid-choice-skipping-push")])
     ELSE [w EXCEPT !.conts = Append(@, [kind |-> p.kind, branch |-> p.branch,
                                         yes |-> IsYes(answer)])]

\* the callback of one question: the menus of handleOutOfSyncBranches and
\* askToPushChanges, and the y/n questions
Callback(w, p, answer) ==
  LET choice == Trim(answer)
  IN IF p.kind = "syncMenu"
     THEN (IF choice = "1"
           THEN [w EXCEPT !.next = "syncAll", !.logs = Append(@, "auto-syncing")]
           ELSE IF choice = "2"
           THEN NextSync([w EXCEPT !.next = "config",
                                   !.syncRest = outOfSyncBranches,
                                   !.logs = Append(@, "syncing-one-by-one")])
           ELSE IF choice = "3"
           THEN [w EXCEPT !.next = "config",
                          !.logs = Append(@, "continuing-without-syncing")]
           ELSE IF choice = "4"
           THEN [w EXCEPT !.dead = TRUE, !.logs = Append(@, "aborted-by-user")]
           ELSE [w EXCEPT !.dead = TRUE, !.logs = Append(@, "invalid-choice-aborting")])
     ELSE IF p.kind = "pushMenu"
     THEN (IF choice = "1"
           THEN [w EXCEPT !.next = "pushAll", !.logs = Append(@, "pushing-all")]
           ELSE IF choice = "2"
           THEN NextPush([w EXCEPT !.next = "restore", !.pushRest = Tail(branches)])
           ELSE IF choice = "3"
           THEN [w EXCEPT !.next = "restore", !.logs = Append(@, "skipping-push")]
           ELSE [w EXCEPT !.next = "restore",
                          !.logs = Append(@, "invalid-choice-skipping-push")])
     ELSE [w EXCEPT !.conts = Append(@, [kind |-> p.kind, branch |-> p.branch,
                                         yes |-> IsYes(answer)])]

\* every open question receives the line, in the order the questions were
\* asked; after process.exit no callback runs
RECURSIVE Callbacks(_, _, _)
Callbacks(w, ps, answer) ==
  IF ps = <<>> \/ w.dead THEN w
  ELSE Callbacks(Callback(w, Head(ps), answer), Tail(ps), answer)

\* the body of the loop of syncBranchesOneByOne or pushBranchesOneByOne after
\* its await, up to the next await
Continuation(w, c, F) ==
  IF c.kind = "syncOne"
  THEN LET co == GitCheckout(w.g, c.branch, "checkout" \in F)
           pl == GitPull(co.g, c.branch, "pull" \in F)
       IN NextSync(
            IF c.yes
            THEN [w EXCEPT
                   !.g = IF co.ok THEN pl.g ELSE co.g,
                   !.trace = @ \o <<Ev("checkout", c.branch, "", co.ok, w.g)>>
                      \o (IF co.ok THEN <<Ev("pull", c.branch, "", pl.ok, co.g)>>
                          ELSE <<>>),
                   !.logs = Append(@, IF co.ok /\ pl.ok THEN "synced-one"
                                      ELSE "failed-to-sync-one")]
            ELSE w)
  ELSE LET ps == GitPush(w.g, c.branch, "push" \in F)
       IN NextPush(
            IF c.yes
            THEN [w EXCEPT
                   !.g = ps.g,
                   !.trace = Append(@, Ev("push", c.branch, "", ps.ok, w.g)),
                   !.logs = Append(@, IF ps.ok THEN "pushed-one"
                                      ELSE "failed-to-push-one")]
            ELSE w)

RECURSIVE Continuations(_, _, _)
Continuations(w, cs, F) ==
  IF cs = <<>> \/ w.dead THEN w
  ELSE Continuations(Continuation(w, Head(cs), F), Tail(cs), F)

\* the user types a line while the process waits for input
Answer(line) ==
  /\ pc \in {"syncPrompt", "pushPrompt", "resolved"}
  /\ prompts # <<>>
  /\ LET kinds == {prompts[k].kind : k \in DOMAIN prompts}
         points == (IF IsYes(line) /\ "syncOne" \in kinds
                    THEN {"checkout", "pull"} ELSE {})
                   \cup (IF IsYes(line) /\ "pushOne" \in kinds THEN {"push"} ELSE {})
     IN \E F \in FailSets(points) :
          LET w1 == Callbacks(Turn(g), prompts, line)
              w == Continuations(w1, w1.conts, F)
          IN /\ fails' = fails + Cardinality(F)
             /\ g' = w.g
             /\ trace' = w.trace
             /\ logs' = w.logs
             /\ i' = IF w.next \in {"syncAll", "pushAll"} THEN 0 ELSE i
             /\ IF w.dead
                THEN Exit(1)
                ELSE /\ pc' = IF w.next = "-" THEN pc ELSE w.next
                     /\ prompts' = w.open
                     /\ syncRest' = w.syncRest
                     /\ pushRest' = w.pushRest
                     /\ exitCode' = exitCode
  /\ UNCHANGED <<isRepo, config, cliState, branches, stashAction, originalBranch,
                 outOfSyncBranches, conflicts, probes, tips0, wt0>>

\* ------------------------------------------------------------ the run
\* a change that only origin has
RemoteOnly == {9}

\* origin's branches: none without origin; with origin every local stack
\* branch, and the last branch of the stack, has one, equal to the local
\* branch but for the branches of behind, which origin has moved on
Remotes(stack, upToDate, oc) ==
  IF ~oc.origin THEN EmptyFn
  ELSE [b \in {stack[k] : k \in 1..Len(stack)} |->
          StackTip(OwnChange(b), upToDate)
          \cup (IF b \in oc.behind THEN RemoteOnly ELSE {})]

OriginChoices(stack) ==
  {[origin |-> FALSE, behind |-> {}]}
  \cup {[origin |-> TRUE, behind |-> bs] : bs \in {{}, {stack[1]}, {stack[1], stack[2]}}}

\* the working tree: clean, a tracked file modified, an untracked file, the
\* tool's own files modified
WtChoices ==
  {<<>>, <<" M lib.js">>, <<"?? notes.txt">>,
   <<" M scripts/stacked-pr-sync.js">>,
   <<" M lib.js", " M scripts/stacked-pr-config.json">>}

StashChoices == {<<>>, <<[lines |-> <<" M old.js">>, by |-> "user"]>>}

ConfigChoices == {"none", "enabled", "disabled"}

\* The plain run starts on another branch of a clean repository whose stack
\* exists locally, none of its branches merged into the next, origin in
\* sync, no conflicting changes, no stash entry and no configuration file.
\* The branches are given on the command line, without the skip flag.
\* Unusual counts the ways a run departs from it.
Unusual(conf, upToDate, wt, stash, head, lastExists, oc, cfg, flag) ==
  (IF conf # {} THEN 1 ELSE 0) + (IF upToDate # {} THEN 1 ELSE 0)
  + (IF wt # <<>> THEN 1 ELSE 0) + (IF stash # <<>> THEN 1 ELSE 0)
  + (IF head # OtherBranch THEN 1 ELSE 0) + (IF lastExists THEN 0 ELSE 1)
  + (IF oc.origin /\ oc.behind = {} THEN 0 ELSE 1)
  + (IF cfg # "none" THEN 1 ELSE 0) + (IF flag THEN 1 ELSE 0)

MaxUnusual == 2

Init ==
  /\ \E stack \in Stacks, lastExists \in BOOLEAN, xy \in {"UU", "UD"},
        wt \in WtChoices, stash \in StashChoices, cfg \in ConfigChoices,
        repoOk \in BOOLEAN, flag \in BOOLEAN :
       \E upToDate \in SUBSET (2..Len(stack)), conf \in ConflictChoices(Len(stack)),
          oc \in OriginChoices(stack),
          head \in {OtherBranch, stack[Len(stack) - 1], ""} :
          LET unusual == Unusual(conf, upToDate, wt, stash, head, lastExists,
                                 oc, cfg, flag)
              argv == (IF flag THEN <<"-s">> ELSE <<>>) \o stack
              parsed == parseArguments(argv, cfg, NoStacksFile)
          IN /\ (conf = {}) => (xy = "UU")
             /\ unusual <= MaxUnusual
             /\ ~repoOk => (unusual = 0)
             /\ isRepo = repoOk
             /\ config = cfg
             /\ configFile = NoStacksFile
             /\ cliVersion = 2
             /\ args = argv
             /\ skipConflictCheck = parsed.skip
             /\ branches = parsed.branches
             /\ g = Repo(head, LocalTips(stack, upToDate, lastExists), wt, stash,
                         oc.origin, Remotes(stack, upToDate, oc), conf, xy)
  /\ tips0 = g.tips
  /\ wt0 = g.wt
  /\ pc = "start"
  /\ i = 0
  /\ stashAction = "null"
  /\ originalBranch = NullBranch
  /\ outOfSyncBranches = <<>>
  /\ conflicts = <<>>
  /\ exitCode = -1
  /\ logs = <<>>
  /\ trace = <<>>
  /\ probes = <<>>
  /\ prompts = <<>>
  /\ syncRest = <<>>
  /\ pushRest = <<>>
  /\ fails = 0

Next ==
  \/ Start
  \/ Preflight
  \/ RemoteSyncCheck
  \/ SyncAllStep
  \/ SyncAllEnd
  \/ EnterPrecheck
  \/ CheckPair
  \/ CheckDone
  \/ handlePreDetectedConflicts
  \/ MergeStep
  \/ AfterLoop
  \/ PushAllStep
  \/ PushAllEnd
  \/ Restore
  \/ Finish
  \/ \E line \in Lines : Answer(line)

Spec == Init /\ [][Next]_vars

\* Every git command returns and every question shown is answered: until
\* the process has exited it goes on taking steps; and node ends a process
\* whose promise has resolved and that waits for nothing.
Fairness ==
  /\ []<>(pc = "exited") \/ []<><<TRUE>>_vars
  /\ WF_vars(Finish)

SpecFair == Init /\ [][Next]_vars /\ Fairness

\* ------------------------------------------- the run, utils/git.js as it is
\* syncStackedPRs, steps 1 and 2 with the utils/git.js of the repository,
\* which exports no checkOriginExists: after the status report the call of
\* line 259 throws a TypeError, and the catch of syncStackedPRs logs it and
\* exits with 1
RemoteSyncCheckSrc ==
  /\ pc = "status"
  /\ \E F \in FailSets(StatusPoints(branches)) :
       /\ fails' = fails + Cardinality(F)
       /\ outOfSyncBranches' = checkBranchStatuses(g, branches, F)
       /\ logs' = logs \o StatusReport(g, branches, F) \o <<"error-during-sync">>
  /\ pc' = "exited"
  /\ exitCode' = 1
  /\ UNCHANGED <<g, isRepo, config, cliState, branches, i, stashAction, originalBranch,
                 conflicts, trace, probes, tips0, wt0, prompts, syncRest,
                 pushRest>>

NextSrc ==
  \/ Start
  \/ Preflight
  \/ RemoteSyncCheckSrc

SpecSrc == Init /\ [][NextSrc]_vars

\* ------------------------- the run, the conflict detector that asks
\* handlePreDetectedConflicts of the conflict detector that offers to abort
\* or to continue: with no conflict the run goes on; with conflicts the
\* function lists them and then calls logWarning, a name the module does not
\* import, before it creates its question: the ReferenceError rejects the
\* promise, and the catch of syncStackedPRs logs it and exits with 1
handlePreDetectedConflictsPrompt ==
  /\ pc = "handlePre"
  /\ IF conflicts = <<>>
     THEN /\ pc' = LoopPc(Len(branches) - 1, "mergeLoop", "afterLoop")
          /\ i' = 0
          /\ logs' = Append(logs, "safe-to-proceed")
          /\ Alive
     ELSE /\ Exit(1)
          /\ i' = i
          /\ logs' = logs \o <<"conflicts-detected", "error-during-sync">>
  /\ UNCHANGED <<g, isRepo, config, cliState, branches, stashAction, originalBranch,
                 outOfSyncBranches, conflicts, trace, probes, tips0, wt0, fails>>

NextPrompt ==
  \/ Start
  \/ Preflight
  \/ RemoteSyncCheck
  \/ SyncAllStep
  \/ SyncAllEnd
  \/ EnterPrecheck
  \/ CheckPair
  \/ CheckDone
  \/ handlePreDetectedConflictsPrompt
  \/ MergeStep
  \/ AfterLoop
  \/ PushAllStep
  \/ PushAllEnd
  \/ Restore
  \/ Finish
  \/ \E line \in Lines : Answer(line)

SpecPrompt == Init /\ [][NextPrompt]_vars

\* ------------------------------------------------ the command line
\* the bin script: parseArguments, then syncStackedPRs(branches)
ParseArguments ==
  /\ pc = "parse"
  /\ LET parsed == IF cliVersion = 1
                   THEN parseArgumentsV1(args, config, configFile)
                   ELSE parseArguments(args, config, configFile)
     IN /\ skipConflictCheck' = parsed.skip
        /\ branches' = parsed.branches
        /\ logs' = IF parsed.exit THEN Append(logs, parsed.msg) ELSE logs
        /\ IF parsed.exit THEN Exit(parsed.code) ELSE pc' = "start" /\ Alive
  /\ UNCHANGED <<g, isRepo, config, configFile, cliVersion, args, i,
                 stashAction, originalBranch, outOfSyncBranches, conflicts,
                 trace, probes, tips0, wt0, fails>>

\* the stack the configuration file may define
StackName == "web"

FileChoices ==
  {NoStacksFile,
   [defaultStack |-> StackName, hasStacks |-> FALSE, stacks |-> EmptyFn],
   [defaultStack |-> "old", hasStacks |-> TRUE,
    stacks |-> [n \in {StackName} |-> SubSeq(AllBranches, 1, 2)]],
   [defaultStack |-> "", hasStacks |-> TRUE,
    stacks |-> [n \in {StackName} |-> SubSeq(AllBranches, 1, 2)]],
   [defaultStack |-> StackName, hasStacks |-> TRUE,
    stacks |-> [n \in {StackName} |-> SubSeq(AllBranches, 1, 2)]]}

ArgChoices ==
  {<<>>, <<"-s">>, <<"--skip-conflict-check">>, <<"--help">>, <<"--list">>,
   <<StackName>>, <<"-s", StackName>>, <<"nope">>, <<"-x">>,
   SubSeq(AllBranches, 1, 2), <<"-s">> \o SubSeq(AllBranches, 1, 2)}

\* the process as node starts it: nothing parsed yet
InitCli ==
  /\ \E argv \in ArgChoices, cfg \in ConfigChoices, file \in FileChoices,
        version \in {1, 2}, repoOk \in BOOLEAN,
        wt \in {<<>>, <<" M lib.js">>}, oc \in OriginChoices(SubSeq(AllBranches, 1, 2)) :
       /\ (cfg = "none") => (file = NoStacksFile)
       /\ isRepo = repoOk
       /\ config = cfg
       /\ configFile = file
       /\ cliVersion = version
       /\ args = argv
       /\ g = Repo(OtherBranch, LocalTips(SubSeq(AllBranches, 1, 2), {}, TRUE),
                   wt, <<>>, oc.origin,
                   Remotes(SubSeq(AllBranches, 1, 2), {}, oc), {}, "UU")
  /\ skipConflictCheck = FALSE
  /\ branches = <<>>
  /\ tips0 = g.tips
  /\ wt0 = g.wt
  /\ pc = "parse"
  /\ i = 0
  /\ stashAction = "null"
  /\ originalBranch = NullBranch
  /\ outOfSyncBranches = <<>>
  /\ conflicts = <<>>
  /\ exitCode = -1
  /\ logs = <<>>
  /\ trace = <<>>
  /\ probes = <<>>
  /\ prompts = <<>>
  /\ syncRest = <<>>
  /\ pushRest = <<>>
  /\ fails = 0

NextCli ==
  \/ ParseArguments
  \/ Start
  \/ Preflight
  \/ RemoteSyncCheckSrc

SpecCli == InitCli /\ [][NextCli]_vars

\* ------------------------------------------------ the preflight alone
\* loadConfig reads stacked-pr-config.json of the working directory
ConfigPath == "stacked-pr-config.json"

\* working trees for the preflight: clean, a file of the project modified
\* or untracked, the tool's own files modified (staged or not), both
PreflightWt ==
  {<<>>, <<" M lib.js">>, <<"?? notes.txt">>,
   <<" M scripts/stacked-pr-sync.js">>, <<"M  scripts/stacked-pr-sync.js">>,
   <<"M  scripts/stacked-pr-config.json">>,
   <<" M " \o ConfigPath>>, <<"M  " \o ConfigPath>>,
   <<" M lib.js", " M scripts/stacked-pr-config.json">>,
   <<"M  scripts/stacked-pr-sync.js", " M scripts/stacked-pr-config.json">>}

InitPreflight ==
  /\ \E wt \in PreflightWt, stash \in StashChoices, cfg \in ConfigChoices,
        repoOk \in BOOLEAN, head \in {OtherBranch, AllBranches[1], ""} :
       /\ isRepo = repoOk
       /\ config = cfg
       /\ g = Repo(head, LocalTips(SubSeq(AllBranches, 1, 2), {}, TRUE), wt, stash,
                   FALSE, EmptyFn, {}, "UU")
  /\ configFile = NoStacksFile
  /\ cliVersion = 2
  /\ args = SubSeq(AllBranches, 1, 2)
  /\ skipConflictCheck = FALSE
  /\ branches = SubSeq(AllBranches, 1, 2)
  /\ tips0 = g.tips
  /\ wt0 = g.wt
  /\ pc = "start"
  /\ i = 0
  /\ stashAction = "null"
  /\ originalBranch = NullBranch
  /\ outOfSyncBranches = <<>>
  /\ conflicts = <<>>
  /\ exitCode = -1
  /\ logs = <<>>
  /\ trace = <<>>
  /\ probes = <<>>
  /\ prompts = <<>>
  /\ syncRest = <<>>
  /\ pushRest = <<>>
  /\ fails = 0

NextPreflight == Start \/ Preflight

SpecPreflight == InitPreflight /\ [][NextPreflight]_vars

\* ---------------------------------------------------------- properties
\* the precheck has probed at least one pair and has not been left
Probed == pc \in {"precheck", "handlePre"} /\ probes # <<>>

LastProbe == probes[Len(probes)]

\* C1: when performDryRunMerge has returned, whatever its outcome, there is
\* no temp-dry-run-* branch, no merge is in progress, and the branch checked
\* out is the one that was checked out before the probe.
C1_ProbeRestoresRepository ==
  Probed =>
    /\ \A b \in DOMAIN g.tips : ~IsTempBranch(b)
    /\ ~g.merging
    /\ g.head = LastProbe.headBefore

\* C2: performDryRunMerge reports hasConflicts = true exactly when its trial
\* merge left unmerged paths, whatever their kind (modify/delete included),
\* and never because of the status of a path that is not unmerged.
C2_ConflictIffUnmerged ==
  \A k \in DOMAIN probes :
    probes[k].ran => (probes[k].hasConflicts <=> probes[k].unmerged)

\* C3: checkAllPotentialConflicts leaves the tip of every branch of the
\* stack, and of every other local branch that existed before it, unchanged.
C3_ProbeKeepsBranchTips ==
  pc \in {"precheck", "handlePre"} =>
    \A b \in DOMAIN tips0 : b \in DOMAIN g.tips /\ g.tips[b] = tips0[b]

\* every pair has been probed, and one trial merge of changes that were not
\* yet in the target left unmerged paths
C3_Witness ==
  /\ pc = "handlePre"
  /\ Len(probes) = Len(branches) - 1
  /\ \E k \in DOMAIN probes : probes[k].ran /\ probes[k].unmerged

IsProbe(e) == e.op = "probe"

IsMerge(e) == e.op = "merge"

ProbeEvents == SelectSeq(trace, IsProbe)

MergeEvents == SelectSeq(trace, IsMerge)

\* C4: when the pre-conflict check is enabled, every adjacent pair
\* (stack[i], stack[i+1]) is probed, once and in index order, and all the
\* probes are done before the first real merge of the run.
C4_ProbesBeforeMerges ==
  shouldCheckConflicts(config) =>
    /\ Len(ProbeEvents) <= Len(branches) - 1
    /\ \A k \in DOMAIN ProbeEvents :
         ProbeEvents[k].a = branches[k] /\ ProbeEvents[k].b = branches[k + 1]
    /\ (pc = "handlePre" \/ MergeEvents # <<>>) =>
         Len(ProbeEvents) = Len(branches) - 1
    /\ \A k, m \in DOMAIN trace :
         (IsProbe(trace[k]) /\ IsMerge(trace[m])) => k < m

\* a run with the precheck enabled on a stack of three branches has probed
\* both pairs and has done both merges
C4_Witness ==
  /\ shouldCheckConflicts(config)
  /\ Len(branches) = 3
  /\ Len(ProbeEvents) = 2
  /\ Len(MergeEvents) = 2

\* C5: if every probe of the precheck reports no conflict (the tool logs
\* that it is safe to proceed), no real merge of the same run ends in a
\* conflict.  Stated for the runs in which every trial merge was run and no
\* command of a probe failed.
C5_SafeToProceedMeansNoConflict ==
  ("safe-to-proceed" \in {logs[k] : k \in DOMAIN logs}
   /\ \A k \in DOMAIN probes : probes[k].ran /\ ~probes[k].error) =>
    \A k \in DOMAIN trace : IsMerge(trace[k]) => ~trace[k].unmerged

\* C6: once a probe has reported a conflict, nothing but the remaining
\* probes is executed, and when the precheck is over the process has exited
\* with code 1.
C6_PrecheckConflictIsTerminal ==
  /\ \A k, m \in DOMAIN trace :
       (k < m /\ IsProbe(trace[k]) /\ ~trace[k].ok) => IsProbe(trace[m])
  /\ (conflicts # <<>> /\ pc \notin {"precheck", "handlePre"}) =>
       (pc = "exited" /\ exitCode = 1)

\* the precheck has found a conflict and the run is over
C6_Witness ==
  /\ conflicts # <<>>
  /\ pc = "exited"
  /\ \E k \in DOMAIN trace : IsProbe(trace[k]) /\ ~trace[k].ok

\* C7: the k-th merge of the loop merges stack[k-1] into stack[k] (counted
\* from 0) with stack[k] checked out, and only after every earlier merge
\* completed cleanly; a run whose merges are all clean and that reports
\* success has done exactly the n-1 merges.
C7_MergesInOrderOnCheckedOutBranch ==
  /\ Len(MergeEvents) <= Len(branches) - 1
  /\ \A k \in DOMAIN MergeEvents :
       /\ MergeEvents[k].a = branches[k]
       /\ MergeEvents[k].b = branches[k + 1]
       /\ \A m \in 1..(k - 1) : MergeEvents[m].ok
  /\ ("sync-completed-successfully" \in {logs[k] : k \in DOMAIN logs}
      /\ \A k \in DOMAIN MergeEvents : MergeEvents[k].ok) =>
       Len(MergeEvents) = Len(branches) - 1

\* a clean run on a stack of three branches: two clean merges, then success
C7_Witness ==
  /\ Len(branches) = 3
  /\ Len(MergeEvents) = 2
  /\ \A k \in DOMAIN MergeEvents : MergeEvents[k].ok
  /\ "sync-completed-successfully" \in {logs[k] : k \in DOMAIN logs}

\* C8: a real merge that left unmerged paths is the last command of the
\* run: the process has exited with code 1, its target branch still checked
\* out with the merge in progress.
C8_MergeConflictStopsRun ==
  \A k \in DOMAIN trace :
    (IsMerge(trace[k]) /\ trace[k].unmerged) =>
      /\ k = Len(trace)
      /\ pc = "exited" /\ exitCode = 1
      /\ g.head = trace[k].b /\ g.merging

\* C9: after a merge failure that hasConflicts does not take for a conflict
\* no success is logged, the push phase is not entered and the exit code is
\* not 0.
C9_MergeFailureIsReported ==
  "failed-to-merge" \in {logs[k] : k \in DOMAIN logs} =>
    /\ "sync-completed-successfully" \notin {logs[k] : k \in DOMAIN logs}
    /\ "push-prompt" \notin {logs[k] : k \in DOMAIN logs}
    /\ exitCode # 0

\* the working tree was dirty, by isWorkingDirectoryClean, when the run began
DirtyAtStart == ~isWorkingDirectoryClean([g EXCEPT !.wt = wt0, !.mlines = <<>>])

\* C10: in a run that began with a dirty working tree every checkout, pull
\* and merge comes after a git stash push and runs with no uncommitted
\* change in the working tree.
C10_StashBeforeCheckout ==
  DirtyAtStart =>
    \A k \in DOMAIN trace :
      trace[k].op \in {"checkout", "checkout-b", "pull", "merge"} =>
        /\ ~trace[k].dirty
        /\ \E m \in 1..(k - 1) : trace[m].op = "stash-push"

\* the messages logged so far
LogSet == {logs[k] : k \in DOMAIN logs}

\* C11: when a stash was taken (git stash push had tracked changes to
\* save), a run that has ended normally, with success or aborted because of
\* a conflict found by the precheck or by a real merge, has attempted git
\* stash pop (the manual-restore warning is only logged after a failed
\* attempt).
C11_StashPopOnCompletion ==
  (/\ pc = "exited"
   /\ stashAction = "stashed"
   /\ TrackedLines(wt0) # <<>>
   /\ \/ exitCode = 0
      \/ "conflicts-sync-aborted" \in LogSet
      \/ "conflicts-detected" \in LogSet) =>
    \E k \in DOMAIN trace : trace[k].op = "stash-pop"

\* the merge loop of the run was entered
MergeLoopEntered ==
  "safe-to-proceed" \in LogSet \/ "skip-pre-conflict-check" \in LogSet

\* C12: a run that began on a branch and has ended after entering the merge
\* loop, no merge of it having left unmerged paths, has the branch it began
\* on checked out.  Stated for the runs without one-by-one syncing.
C12_EndsOnOriginalBranch ==
  (/\ pc = "exited"
   /\ MergeLoopEntered
   /\ originalBranch # ""
   /\ "syncing-one-by-one" \notin LogSet
   /\ \A k \in DOMAIN trace : ~trace[k].unmerged) =>
    g.head = originalBranch

\* C13: when git stash push has failed the process has exited with code 1,
\* the failed stash is the only command run and the only thing logged (no
\* status report, checkout, pull, probe, merge or push), and the working
\* tree and the stash list are as they were.
C13_StashFailureAborts ==
  "stash-failed" \in LogSet =>
    /\ pc = "exited" /\ exitCode = 1
    /\ logs = <<"stash-failed">>
    /\ Len(trace) = 1 /\ trace[1].op = "stash-push" /\ ~trace[1].ok
    /\ g.wt = wt0
    /\ \A k \in DOMAIN g.stash : g.stash[k].by # "run"

\* git stash push has failed on a tree with a modified tracked file
C13_Witness ==
  /\ "stash-failed" \in LogSet
  /\ TrackedLines(wt0) # <<>>
  /\ pc = "exited"

\* C14: after a failed git stash pop the manual-restore warning is logged,
\* syncStackedPRs resolves and the process ends with code 0, and the entry
\* the run had stashed is still on top of the stash list.
C14_PopFailureNotFatal ==
  "stash-restore-warning" \in LogSet =>
    /\ pc \in {"resolved", "exited"}
    /\ exitCode \in {-1, 0}
    /\ pc = "exited" => exitCode = 0
    /\ "script-completed" \in LogSet
    /\ TrackedLines(wt0) # <<>> =>
         /\ g.stash # <<>>
         /\ Head(g.stash) = [lines |-> TrackedLines(wt0), by |-> "run"]

\* git stash pop has failed on an entry the run had stashed, and the process
\* has ended with code 0
C14_Witness ==
  /\ "stash-restore-warning" \in LogSet
  /\ TrackedLines(wt0) # <<>>
  /\ pc = "exited"
  /\ exitCode = 0

\* the status report of the run has been logged
StatusReported ==
  \E st \in {"not-found", "no-remote", "in-sync", "out-of-sync"} :
    StatusLine(branches[1], st) \in LogSet

\* C15: in a repository without a remote named origin a run never shows the
\* out-of-sync prompt, never enters the push phase and executes no git pull
\* and no git push; and a run over a stack that exists locally, without
\* conflicting changes and with no command failing, has run the probes (when
\* the precheck is enabled) and the n-1 merges when it ends.
C15_NoOriginRunsLocally ==
  (~g.origin /\ StatusReported) =>
    /\ "out-of-sync-prompt" \notin LogSet
    /\ "push-prompt" \notin LogSet
    /\ \A k \in DOMAIN trace : trace[k].op \notin {"pull", "push"}
    /\ (/\ pc = "exited"
        /\ fails = 0
        /\ g.conf = {}
        /\ \A k \in DOMAIN branches : branches[k] \in DOMAIN g.tips) =>
         /\ shouldCheckConflicts(config) => Len(ProbeEvents) = Len(branches) - 1
         /\ Len(MergeEvents) = Len(branches) - 1

\* C16: when no remote named origin exists, the status report classifies
\* every branch of the stack as no-remote, a branch that does not exist
\* locally included.
C16_NoOriginAllNoRemote ==
  (~g.origin /\ StatusReported) =>
    \A k \in DOMAIN branches : StatusLine(branches[k], "no-remote") \in LogSet

\* C17: when origin exists and every branch of the stack is reported in
\* sync, the run logs that all branches are in sync, shows no prompt, and
\* goes on to the conflict precheck step: if it has ended, it has ended after
\* the precheck was run or skipped.
C17_AllInSyncProceeds ==
  (/\ g.origin
   /\ \A k \in DOMAIN branches : StatusLine(branches[k], "in-sync") \in LogSet) =>
    /\ "all-in-sync" \in LogSet
    /\ "out-of-sync-prompt" \notin LogSet
    /\ pc = "exited" =>
         \/ ProbeEvents # <<>>
         \/ "skip-pre-conflict-check" \in LogSet

\* C18: once a probe or a real merge of the run has been executed, no
\* question of the one-by-one sync is open or still to be asked, and no git
\* pull is executed any more.
C18_SyncCompletesBeforePrecheck ==
  /\ (ProbeEvents # <<>> \/ MergeEvents # <<>>) =>
       /\ syncRest = <<>>
       /\ \A k \in DOMAIN prompts : prompts[k].kind # "syncOne"
  /\ \A k, m \in DOMAIN trace :
       (k < m /\ trace[k].op \in {"probe", "merge"}) => trace[m].op # "pull"

\* C19: at most one question is open at any time; when the run restores the
\* original branch and the stash, or has resolved, no question of the
\* one-by-one push is open or still to be asked; and no git push is executed
\* after git stash pop.
C19_PushCompletesBeforeRestore ==
  /\ Len(prompts) <= 1
  /\ pc \in {"restore", "resolved"} =>
       /\ pushRest = <<>>
       /\ \A k \in DOMAIN prompts : prompts[k].kind # "pushOne"
  /\ \A k, m \in DOMAIN trace :
       (k < m /\ trace[k].op = "stash-pop") => trace[m].op # "push"

IsPush(e) == e.op = "push"

PushEvents == SelectSeq(trace, IsPush)

\* C20: no push is ever attempted for stack[0]; with push-all, git push is
\* attempted for stack[1], ..., stack[n-1] in this order, once each, whether
\* or not an earlier push failed: i attempts after i turns of the loop, all
\* n-1 when the loop is over.
C20_PushAllCoversTail ==
  /\ \A k \in DOMAIN PushEvents : PushEvents[k].a # branches[1]
  /\ "pushing-all" \in LogSet =>
       /\ Len(PushEvents) <= Len(branches) - 1
       /\ \A k \in DOMAIN PushEvents : PushEvents[k].a = branches[k + 1]
       /\ pc = "pushAll" => Len(PushEvents) = i
       /\ pc # "pushAll" => Len(PushEvents) = Len(branches) - 1

\* push-all on a stack of three branches is over, and the push of stack[1]
\* had failed
C20_Witness ==
  /\ "pushing-all" \in LogSet
  /\ pc # "pushAll"
  /\ Len(branches) = 3
  /\ Len(PushEvents) = 2
  /\ ~PushEvents[1].ok

\* C21: a run started with --skip-conflict-check or -s, or whose
\* configuration disables preConflictCheck, performs no probe and goes from
\* the status check straight to the merge loop; any other run that reaches
\* the merge loop has probed every adjacent pair.
C21_SkipFlagOrConfigSkipsProbes ==
  /\ (skipConflictCheck \/ config = "disabled") =>
       (probes = <<>> /\ ProbeEvents = <<>> /\ pc \notin {"precheck", "handlePre"})
  /\ (~skipConflictCheck /\ config # "disabled" /\ MergeLoopEntered) =>
       Len(ProbeEvents) = Len(branches) - 1

\* the git commands of the run that were a fetch from origin
FetchEvents ==
  LET IsFetch(e) == e.op = "fetch"
  IN SelectSeq(trace, IsFetch)

\* C22: when the status report has been made, the run has fetched from
\* origin before it: the report compares the local branches with the
\* fetched state of origin.
C22_FetchBeforeStatusReport ==
  StatusReported => FetchEvents # <<>>

\* the options the parseArguments in use takes out of the branch list
SkipFlags == IF cliVersion = 2 THEN {"-s", "--skip-conflict-check"} ELSE {}

\* the command line asks for a sync, not for the help or the list of stacks
SyncRequested ==
  \A k \in DOMAIN args :
     args[k] \notin {"--help", "-h", "--list", "-l", "--config", "-c"}

NoBranchesGiven == \A k \in DOMAIN args : args[k] \in SkipFlags

UsableDefaultStack ==
  /\ config # "none"
  /\ configFile.hasStacks
  /\ configFile.defaultStack \in DOMAIN configFile.stacks

\* C23: when the working directory is not a git repository, or no branch is
\* given and the configuration has no usable default stack, the process
\* exits with code 1 and no git command that changes something has run:
\* the stash, the branches, the checked-out branch and the working tree are
\* as they were.
C23_EnvironmentErrorsAreFatalBeforeMutation ==
  (/\ SyncRequested
   /\ ~isRepo \/ (NoBranchesGiven /\ ~UsableDefaultStack)) =>
    /\ pc \in {"parse", "start"} \/ (pc = "exited" /\ exitCode = 1)
    /\ trace = <<>>
    /\ g.stash = <<>> /\ g.tips = tips0 /\ g.wt = wt0 /\ g.head = OtherBranch

\* a run in a repository with uncommitted changes has ended because no
\* branch was given and the default stack the file names is not defined
C23_Witness ==
  /\ pc = "exited" /\ exitCode = 1
  /\ isRepo /\ g.wt # <<>>
  /\ args = <<"-s">> /\ cliVersion = 2
  /\ config # "none" /\ configFile.defaultStack = "old"

\* C24: an invalid choice at the out-of-sync menu ends the process with
\* code 1 before any checkout, pull, probe, merge or push; an invalid choice
\* at the push menu pushes no branch, and the run goes on to the restore.
C24_InvalidChoice ==
  /\ "invalid-choice-aborting" \in LogSet =>
       /\ pc = "exited" /\ exitCode = 1
       /\ \A k \in DOMAIN trace : trace[k].op \in {"stash-push"}
  /\ "invalid-choice-skipping-push" \in LogSet =>
       /\ PushEvents = <<>>
       /\ pc \in {"restore", "resolved", "exited"}
       /\ (pc = "exited" /\ exitCode = 0) => "script-completed" \in LogSet

\* after an invalid choice at the push menu of a run that has merged, the
\* restore has been done
C24_Witness ==
  /\ "invalid-choice-skipping-push" \in LogSet
  /\ MergeEvents # <<>>
  /\ pc = "resolved"

\* the status lines of the report, in the order they were logged
IsStatusLine(l) ==
  \E k \in DOMAIN branches, st \in {"not-found", "no-remote", "in-sync", "out-of-sync"} :
     l = StatusLine(branches[k], st)

ReportedLines == SelectSeq(logs, IsStatusLine)

\* C25: the status reported for a branch, no query having failed, says
\* localExists exactly when the branch exists locally and remoteExists
\* exactly when origin/<branch> exists, and in-sync exactly when both exist
\* and point at the same commit; a branch that only origin has is reported
\* with remoteExists = true.
C25_StatusMatchesExistence ==
  (StatusReported /\ fails = 0) =>
    \A k \in DOMAIN branches :
       LET b == branches[k]
           status == getBranchStatusResult(g, b, {})
       IN /\ ReportedLines[k] = StatusLine(b, status.syncStatus)
          /\ status.localExists = (b \in DOMAIN g.tips)
          /\ status.remoteExists = (b \in DOMAIN g.remotes)
          /\ (status.syncStatus = "in-sync") =
               (b \in DOMAIN g.tips /\ b \in DOMAIN g.remotes
                /\ g.tips[b] = g.remotes[b])

\* the branches whose reported status is not the one the repository gives
Degraded ==
  {k \in DOMAIN branches :
     k \notin DOMAIN ReportedLines
     \/ ReportedLines[k] # StatusLine(branches[k], getBranchStatus(g, branches[k]))}

\* C26: checkBranchStatuses reports exactly one status per branch, in stack
\* order, whatever query fails; a failing query degrades the status of its
\* own branch only, to not-found or no-remote; and the step changes neither
\* the repository (checked-out branch, branch tips, working tree, stash) nor
\* the list of git commands run.
C26_StatusCheckReadOnlyAndTotal ==
  /\ [](StatusReported =>
          /\ Len(ReportedLines) = Len(branches)
          /\ Cardinality(Degraded) <= fails
          /\ \A k \in Degraded :
                ReportedLines[k] \in {StatusLine(branches[k], "not-found"),
                                      StatusLine(branches[k], "no-remote")})
  /\ [][pc = "status" => (g' = g /\ trace' = trace)]_vars

\* a query of the second branch failed: the branch is reported not found
\* though it exists, and the first branch is reported in sync
C26_Witness ==
  /\ StatusReported
  /\ fails = 1
  /\ Degraded = {2}
  /\ ReportedLines[1] = StatusLine(branches[1], "in-sync")
  /\ branches[2] \in DOMAIN g.tips

IsCheckoutOrPull(e) == e.op \in {"checkout", "pull"}

\* evs is, for each branch of bs in turn, one checkout of it, followed by
\* one pull of it when the checkout succeeded
RECURSIVE OneCheckoutThenPullEach(_, _)
OneCheckoutThenPullEach(evs, bs) ==
  IF bs = <<>> THEN evs = <<>>
  ELSE /\ evs # <<>>
       /\ Head(evs).op = "checkout" /\ Head(evs).a = Head(bs)
       /\ IF Head(evs).ok
          THEN /\ Len(evs) >= 2
               /\ evs[2].op = "pull" /\ evs[2].a = Head(bs)
               /\ OneCheckoutThenPullEach(SubSeq(evs, 3, Len(evs)), Tail(bs))
          ELSE OneCheckoutThenPullEach(Tail(evs), Tail(bs))

\* the position of a branch in the stack
StackIndex(b) == CHOOSE k \in DOMAIN branches : branches[k] = b

SyncFailures ==
  LET Failed(l) == l = "failed-to-sync-one"
  IN Len(SelectSeq(logs, Failed))

\* C28: when sync-all was chosen and syncAllBranches has returned, the
\* checkouts and pulls of the run are, for each out-of-sync branch in stack
\* order, one checkout followed by one pull (no pull when the checkout
\* failed); every failure was logged, the loop went on to the last branch
\* and the run is alive; no probe and no merge has been done yet.
C28_SyncAllOncePerBranchInOrder ==
  /\ (pc = "syncAll") => (probes = <<>> /\ MergeEvents = <<>> /\ exitCode = -1)
  /\ ("auto-syncing" \in LogSet /\ pc = "config") =>
       /\ OneCheckoutThenPullEach(SelectSeq(trace, IsCheckoutOrPull), outOfSyncBranches)
       /\ \A j, k \in DOMAIN outOfSyncBranches :
             j < k => StackIndex(outOfSyncBranches[j]) < StackIndex(outOfSyncBranches[k])
       /\ SyncFailures =
            Cardinality({k \in DOMAIN trace :
                           IsCheckoutOrPull(trace[k]) /\ ~trace[k].ok})
       /\ probes = <<>> /\ MergeEvents = <<>> /\ exitCode = -1

\* sync-all over two branches: the checkout of the first failed, the second
\* was checked out and pulled
C28_Witness ==
  /\ "auto-syncing" \in LogSet /\ pc = "config"
  /\ Len(outOfSyncBranches) = 2
  /\ \E j, k \in DOMAIN trace :
        /\ j < k
        /\ trace[j].op = "checkout" /\ ~trace[j].ok
        /\ trace[k].op = "pull" /\ trace[k].ok /\ trace[k].a = outOfSyncBranches[2]

\* C29: when the precheck has found a conflicting pair and the process has
\* ended, the tool has printed the manual resolution instructions of the
\* conflicting pairs and the instruction to run the sync again.
C29_ConflictInstructionsPrinted ==
  (conflicts # <<>> /\ pc = "exited") =>
    /\ "resolution-instructions" \in LogSet
    /\ "run-sync-again" \in LogSet

\* C30: with the conflict detector that asks, a run whose precheck has
\* found a conflict is offered to abort or to continue; no real merge is
\* done unless continue was chosen.
C30_OnlyContinueStartsMerges ==
  (conflicts # <<>> /\ pc \notin {"precheck", "handlePre"}) =>
    /\ "abort-or-continue-prompt" \in LogSet
    /\ MergeEvents # <<>> => "continuing-despite-conflicts" \in LogSet

\* no two events of evs are about the same pair of branches
PairsDistinct(evs) ==
  \A j, k \in DOMAIN evs :
     (j # k) => <<evs[j].a, evs[j].b>> # <<evs[k].a, evs[k].b>>

\* the process has a step to take: the guard of an action of the run holds
CanStep ==
  \/ pc \in {"start", "preflight", "status", "config", "handlePre",
             "afterLoop", "restore", "syncAll", "precheck", "pushAll"}
  \/ pc = "mergeLoop" /\ i < Len(branches) - 1
  \/ pc \in {"syncPrompt", "pushPrompt"} /\ prompts # <<>>
  \/ pc = "resolved"

\* C27: every run ends: the process exits with code 0 or with code 1, and
\* until then it always has a step to take; and no pair of the stack is
\* probed more than once or merged more than once.
C27_TerminatesWithoutRetry ==
  /\ <>(pc = "exited" /\ exitCode \in {0, 1})
  /\ [](pc # "exited" => CanStep)
  /\ [](PairsDistinct(ProbeEvents) /\ PairsDistinct(MergeEvents))

\* a run has ended with code 0 after a merge that failed without a conflict
C27_Witness ==
  /\ pc = "exited" /\ exitCode = 0
  /\ ProbeEvents # <<>>
  /\ \E k \in DOMAIN MergeEvents : ~MergeEvents[k].ok

\* the branches the status report has classified out-of-sync
ReportedOutOfSync ==
  {branches[k] : k \in {j \in DOMAIN branches :
                          StatusLine(branches[j], "out-of-sync") \in LogSet}}

\* C31: once the status report is made, the out-of-sync prompt is shown
\* exactly when origin exists and a branch is classified out-of-sync; until
\* the precheck step only branches classified out-of-sync are checked out
\* or pulled; and after "continue without syncing" none is.
C31_PromptIffOriginAndOutOfSync ==
  /\ StatusReported =>
       ("out-of-sync-prompt" \in LogSet <=> (g.origin /\ ReportedOutOfSync # {}))
  /\ pc \in {"status", "syncPrompt", "syncAll", "config"} =>
       \A k \in DOMAIN trace :
          IsCheckoutOrPull(trace[k]) => trace[k].a \in ReportedOutOfSync
  /\ ("continuing-without-syncing" \in LogSet /\ pc = "config") =>
       \A k \in DOMAIN trace : ~IsCheckoutOrPull(trace[k])

\* C32: a git stash pop of the run that succeeded has popped the entry the
\* preflight's git stash push had saved: the push had changes to save, and
\* no change of an entry that was in the stash list before the run has been
\* applied to the working tree.
C32_PopsOwnStashEntry ==
  /\ (\E k \in DOMAIN trace : trace[k].op = "stash-pop" /\ trace[k].ok) =>
       TrackedLines(wt0) # <<>>
  /\ \A c \in StashChoices :
       \A k \in DOMAIN c : \A j \in DOMAIN c[k].lines :
          \A m \in DOMAIN g.wt : g.wt[m] # c[k].lines[j]

\* C33: performDryRunMerge always returns: every pair of the stack gets a
\* result.  A probe that failed without its trial merge leaving unmerged
\* paths (a branch missing, the temporary branch not created, the current
\* branch not read, a command failing) returns hasConflicts = false with an
\* error; when no trial merge left unmerged paths no pair is logged as
\* conflicting, and the list of conflicts is empty, so that the run goes on
\* to the merge loop.
C33_ProbeFailureIsNoConflict ==
  /\ pc = "handlePre" => Len(probes) = Len(branches) - 1
  /\ \A k \in DOMAIN probes :
       (probes[k].error /\ ~probes[k].unmerged) => ~probes[k].hasConflicts
  /\ (\A k \in DOMAIN probes : ~probes[k].unmerged) =>
       (conflicts = <<>> /\ "potential-conflicts" \notin LogSet)

\* the path a line of git status --porcelain is about
StatusPath(line) == Substring(line, 3)

\* the tool's own script and configuration files
ToolFiles == ScriptFiles \cup {ConfigPath}

\* the preflight has run git stash push
StashTaken == \E k \in DOMAIN trace : trace[k].op = "stash-push"

\* C34: when the preflight has decided (the status was read), it has run git
\* stash push exactly when the working tree had a changed path that is not
\* one of the tool's own files; changes confined to the configuration file
\* loadConfig reads have caused no stash.
C34_StashIffForeignChanges ==
  (pc = "status" \/ "stash-failed" \in LogSet) =>
    /\ StashTaken <=> (\E k \in DOMAIN wt0 : StatusPath(wt0[k]) \notin ToolFiles)
    /\ (wt0 # <<>> /\ \A k \in DOMAIN wt0 : StatusPath(wt0[k]) = ConfigPath) =>
         (~StashTaken /\ stashAction = "null")

\* the checkouts of the merge loop that failed: switchToBranch has thrown
\* for a branch of the stack no merge had been made into
FailedLoopCheckouts ==
  {k \in DOMAIN trace :
     /\ trace[k].op = "checkout-b" /\ ~trace[k].ok
     /\ \E j \in 2..Len(branches) : branches[j] = trace[k].a
     /\ \A m \in 1..(k - 1) : ~(IsMerge(trace[m]) /\ trace[m].b = trace[k].a)}

\* C35: when switchToBranch has thrown in the merge loop, the error was
\* logged and the process has exited with code 1; the failed checkout is the
\* last git command of the run: the merges done are into earlier branches of
\* the stack only, no success is reported, no push is offered or made.
C35_CheckoutFailureInLoopIsFatal ==
  \A k \in FailedLoopCheckouts :
     /\ pc = "exited" /\ exitCode = 1
     /\ k = Len(trace)
     /\ "error-during-sync" \in LogSet
     /\ "sync-completed-successfully" \notin LogSet
     /\ "push-prompt" \notin LogSet /\ PushEvents = <<>>
     /\ \A m \in DOMAIN MergeEvents :
           StackIndex(MergeEvents[m].b) < StackIndex(trace[k].a)

\* the last branch of a stack of three exists neither locally nor on origin:
\* the first merge was done, the switch to the last branch has failed
C35_Witness ==
  /\ FailedLoopCheckouts # {}
  /\ Len(branches) = 3
  /\ branches[3] \notin DOMAIN g.tips /\ branches[3] \notin DOMAIN g.remotes
  /\ Len(MergeEvents) = 1 /\ MergeEvents[1].ok
  /\ pc = "exited"
====
